---- MODULE Spec2Model ----
(***************************************************************************)
(* Model of the lightning spot-trading core: N sequencer shards that own   *)
(* account balances (src/src/models.rs, src/src/processor.rs) and N        *)
(* matcher shards that own order books (src/src/matching.rs), wired by     *)
(* unbounded channels (src/src/main.rs) and fed by the gRPC edge           *)
(* (src/src/grpc.rs).                                                      *)
(*                                                                         *)
(* Decimals are integers (one unit = the smallest quantity the model       *)
(* uses).  A decimal string is a record [parsable, value]; from_str_exact  *)
(* fails on an unparsable one.                                             *)
(***************************************************************************)
EXTENDS Integers, Sequences, FiniteSets, TLC

(***************************************************************************)
(* Program constants                                                       *)
(***************************************************************************)
\* main.rs:15 / lib.rs:11  pub const SHARD_COUNT: usize = 10
SHARD_COUNT == 10
\* processor.rs:529,559,616  the literal 10 of the sequencer's ownership test
OWNER_MODULUS == 10
\* models.rs init_global_config: currencies BTC = 1, USDT = 2
BTC == 1
USDT == 2
\* models.rs init_global_config: symbol 1 = BTC-USDT
BTC_USDT == 1
\* rust_decimal Decimal::MAX, the price given to a market Bid (matching.rs:505);
\* any value above every price the model uses behaves the same
DECIMAL_MAX == 1000000
DEFAULT_LEVELS == 20
UNKNOWN_SYMBOL == 999

(***************************************************************************)
(* Bounds of the model                                                     *)
(***************************************************************************)
\* one-shot reply channels that may be open at the same time
MaxInFlight == 1
\* orders a matcher may have numbered before the edge stops sending PlaceOrder
MaxOrders == 2
\* largest total an (account, currency) may reach by Increase
MaxBalance == 2
\* largest price and quantity the clients send
MaxPrice == 2
MaxQuantity == 2
\* orders of the malformed-input workload
MaxInputOrders == 1
\* orders of the limit-order workload (two makers of one level and a taker)
MaxSweepOrders == 3
MaxShards == 3
MaxLevels == 2
MaxClock == 2
MaxRouted == 2

\* S1's accounts A = 1 and B = 2 (examples/integration_test.rs:10-11): two shards
Accounts == {1, 2}
Currencies == {BTC, USDT}
SymbolIds == {BTC_USDT}
Slots == 1 .. MaxInFlight

Str(n) == [parsable |-> TRUE, value |-> n]
BadStr == [parsable |-> FALSE, value |-> 0]

\* Decimal::from_str_exact
from_str_exact(s) == IF s.parsable THEN [ok |-> TRUE, value |-> s.value]
                     ELSE [ok |-> FALSE, value |-> 0]
\* Decimal::to_string
to_string(d) == [parsable |-> TRUE, value |-> d]

Abs(x) == IF x < 0 THEN -x ELSE x
\* Rust's % truncates toward zero: the sign of the result is the dividend's
Rem(a, n) == IF a >= 0 THEN a % n ELSE -((-a) % n)
\* (id % n as i32).abs() as usize
shard_index(id, n) == Abs(Rem(id, n))

\* The shards some account or symbol of the model is routed to; every other shard
\* of the SHARD_COUNT never receives a message and keeps its initial state
Shards == {shard_index(a, SHARD_COUNT) : a \in Accounts}
            \cup {shard_index(sy, SHARD_COUNT) : sy \in SymbolIds}

Min(a, b) == IF a <= b THEN a ELSE b
EmptyMap == [x \in {} |-> 0]
Put(f, k, v) == [x \in (DOMAIN f) \cup {k} |-> IF x = k THEN v ELSE f[x]]
Drop(f, k) == [x \in (DOMAIN f) \ {k} |-> f[x]]

(***************************************************************************)
(* Global config (models.rs)                                               *)
(***************************************************************************)
GLOBAL_SYMBOLS == [x \in {BTC_USDT} |-> [id |-> BTC_USDT, base |-> BTC, quote |-> USDT]]
symbol_known(symbol_id) == symbol_id \in DOMAIN GLOBAL_SYMBOLS
get_symbol(symbol_id) == GLOBAL_SYMBOLS[symbol_id]

(***************************************************************************)
(* AccountBalance, Account, BalanceManager (models.rs)                     *)
(***************************************************************************)
AccountBalance_new == [total |-> 0, frozen |-> 0, available |-> 0]

\* increase with the `self.available += amount` line left out
increase_without_available(bal, amount) ==
  IF amount <= 0 THEN [ok |-> FALSE, err |-> "InvalidAmount", bal |-> bal]
  ELSE [ok |-> TRUE, err |-> "", bal |-> [bal EXCEPT !.total = @ + amount]]

increase(bal, amount) ==
  IF amount <= 0 THEN [ok |-> FALSE, err |-> "InvalidAmount", bal |-> bal]
  ELSE [ok |-> TRUE, err |-> "",
        bal |-> [bal EXCEPT !.total = @ + amount, !.available = @ + amount]]

\* decrease with the balance test made on total, not on available
decrease_from_total(bal, amount) ==
  IF amount <= 0 THEN [ok |-> FALSE, err |-> "InvalidAmount", bal |-> bal]
  ELSE IF bal.total < amount
       THEN [ok |-> FALSE, err |-> "InsufficientBalance", bal |-> bal]
  ELSE [ok |-> TRUE, err |-> "",
        bal |-> [bal EXCEPT !.total = @ - amount, !.available = @ - amount]]

decrease(bal, amount) ==
  IF amount <= 0 THEN [ok |-> FALSE, err |-> "InvalidAmount", bal |-> bal]
  ELSE IF bal.available < amount
       THEN [ok |-> FALSE, err |-> "InsufficientBalance", bal |-> bal]
  ELSE [ok |-> TRUE, err |-> "",
        bal |-> [bal EXCEPT !.total = @ - amount, !.available = @ - amount]]

\* freeze with the `self.available < amount` test left out
freeze_unchecked(bal, amount) ==
  IF amount <= 0 THEN [ok |-> FALSE, err |-> "InvalidAmount", bal |-> bal]
  ELSE [ok |-> TRUE, err |-> "",
        bal |-> [bal EXCEPT !.available = @ - amount, !.frozen = @ + amount]]

freeze(bal, amount) ==
  IF amount <= 0 THEN [ok |-> FALSE, err |-> "InvalidAmount", bal |-> bal]
  ELSE IF bal.available < amount
       THEN [ok |-> FALSE, err |-> "InsufficientBalance", bal |-> bal]
  ELSE [ok |-> TRUE, err |-> "",
        bal |-> [bal EXCEPT !.available = @ - amount, !.frozen = @ + amount]]

\* Account::new.  Account.balances is a map that get_balance fills with
\* AccountBalance::new on first use; the model holds every currency's balance from
\* the start, so a currency never touched reads as the zero balance get_balance
\* would insert (the two differ only in the listing GetAccount returns)
Account_new == [c \in Currencies |-> AccountBalance_new]
\* accounts.entry(account_id).or_insert_with(Account::new)
entry_account(bm, account_id) ==
  IF account_id \in DOMAIN bm THEN bm ELSE Put(bm, account_id, Account_new)
\* Account::get_balance
get_balance(account, currency_id) == account[currency_id]
\* the manager after `entry(account_id)...get_balance(currency_id)` then a write
with_balance(bm, account_id, currency_id, bal) ==
  LET bm1 == entry_account(bm, account_id)
  IN  Put(bm1, account_id, Put(bm1[account_id], currency_id, bal))
\* the balance `entry(account_id)...get_balance(currency_id)` hands out
balance_of(bm, account_id, currency_id) ==
  get_balance(entry_account(bm, account_id)[account_id], currency_id)

NoData == [total |-> 0, frozen |-> 0, available |-> 0, present |-> FALSE]
Data(bal) == [total |-> bal.total, frozen |-> bal.frozen,
              available |-> bal.available, present |-> TRUE]

handle_get_account(bm, account_id) ==
  IF account_id \notin DOMAIN bm
  THEN [type |-> "GetAccountResponse", code |-> 404, data |-> EmptyMap]
  ELSE [type |-> "GetAccountResponse", code |-> 0, data |-> bm[account_id]]

handle_increase(bm, account_id, currency_id, amount_str) ==
  LET p == from_str_exact(amount_str)
      bal == balance_of(bm, account_id, currency_id)
      r == increase(bal, p.value)
  IN  IF ~p.ok THEN [bm |-> bm, code |-> 400, data |-> NoData]
      ELSE IF r.ok
           THEN [bm |-> with_balance(bm, account_id, currency_id, r.bal),
                 code |-> 0, data |-> Data(r.bal)]
      ELSE [bm |-> with_balance(bm, account_id, currency_id, bal),
            code |-> 400, data |-> NoData]

handle_decrease(bm, account_id, currency_id, amount_str) ==
  LET p == from_str_exact(amount_str)
      bal == balance_of(bm, account_id, currency_id)
      r == decrease(bal, p.value)
  IN  IF ~p.ok THEN [bm |-> bm, code |-> 400, data |-> NoData]
      ELSE IF r.ok
           THEN [bm |-> with_balance(bm, account_id, currency_id, r.bal),
                 code |-> 0, data |-> Data(r.bal)]
      ELSE [bm |-> with_balance(bm, account_id, currency_id, bal),
            code |-> 400, data |-> NoData]

handle_freeze(bm, account_id, currency_id, amount_str) ==
  LET p == from_str_exact(amount_str)
      bal == balance_of(bm, account_id, currency_id)
      r == freeze(bal, p.value)
  IN  IF ~p.ok THEN [bm |-> bm, ok |-> FALSE, err |-> "InvalidAmount"]
      ELSE [bm |-> with_balance(bm, account_id, currency_id, r.bal),
            ok |-> r.ok, err |-> r.err]

\* the freeze amount of a Bid taken to be the quantity, as for an Ask
freeze_request_quantity_only(symbol_id, side, price, quantity) ==
  LET symbol == get_symbol(symbol_id)
      pd == from_str_exact(price)
      qd == from_str_exact(quantity)
  IN  IF side = 0
      THEN [ok |-> pd.ok /\ qd.ok, currency |-> symbol.quote, amount |-> qd.value]
      ELSE [ok |-> qd.ok, currency |-> symbol.base, amount |-> qd.value]

\* BalanceManager::handle_place_order: the currency and amount to freeze
freeze_request(symbol_id, side, price, quantity) ==
  LET symbol == get_symbol(symbol_id)
      pd == from_str_exact(price)
      qd == from_str_exact(quantity)
  IN  IF side = 0
      THEN [ok |-> pd.ok /\ qd.ok, currency |-> symbol.quote,
            amount |-> pd.value * qd.value]
      ELSE [ok |-> qd.ok, currency |-> symbol.base, amount |-> qd.value]

\* handle_place_order taking every symbol id for BTC-USDT
handle_place_order_any_symbol(bm, account_id, symbol_id, side, price, quantity) ==
  LET fr == freeze_request(BTC_USDT, side, price, quantity)
      r == handle_freeze(bm, account_id, fr.currency, to_string(fr.amount))
  IN  IF ~fr.ok
      THEN [bm |-> bm, ok |-> FALSE, err |-> "InvalidAmount",
            currency |-> 0, amount |-> 0]
      ELSE [bm |-> r.bm, ok |-> r.ok, err |-> r.err,
            currency |-> fr.currency, amount |-> fr.amount]

\* handle_place_order accepting the order with nothing frozen
handle_place_order_without_freeze(bm, account_id, symbol_id, side, price, quantity) ==
  IF ~symbol_known(symbol_id)
  THEN [bm |-> bm, ok |-> FALSE, err |-> "CurrencyNotFound", currency |-> 0, amount |-> 0]
  ELSE LET fr == freeze_request(symbol_id, side, price, quantity)
       IN  [bm |-> bm, ok |-> fr.ok, err |-> "InvalidAmount",
            currency |-> fr.currency, amount |-> fr.amount]

handle_place_order(bm, account_id, symbol_id, side, price, quantity) ==
  IF ~symbol_known(symbol_id)
  THEN [bm |-> bm, ok |-> FALSE, err |-> "CurrencyNotFound", currency |-> 0, amount |-> 0]
  ELSE LET fr == freeze_request(symbol_id, side, price, quantity)
           r == handle_freeze(bm, account_id, fr.currency, to_string(fr.amount))
       IN  IF ~fr.ok
           THEN [bm |-> bm, ok |-> FALSE, err |-> "InvalidAmount",
                 currency |-> 0, amount |-> 0]
           ELSE [bm |-> r.bm, ok |-> r.ok, err |-> r.err,
                 currency |-> fr.currency, amount |-> fr.amount]

(***************************************************************************)
(* Order, PriceLevel, OrderBook, MatchingEngine (matching.rs)              *)
(***************************************************************************)
\* impl From<i32> for OrderType
OrderType_from(value) == IF value = 1 THEN "Market" ELSE "Limit"
\* impl From<i32> for OrderSide
OrderSide_from(value) == IF value = 1 THEN "Ask" ELSE "Bid"

Order_new(id, symbol_id, account_id, order_type, side, price, quantity) ==
  [id |-> id, symbol_id |-> symbol_id, account_id |-> account_id,
   order_type |-> order_type, side |-> side, price |-> price,
   quantity |-> quantity, filled_quantity |-> 0, status |-> "Pending"]

remaining_quantity(o) == o.quantity - o.filled_quantity
is_filled(o) == o.filled_quantity >= o.quantity

RECURSIVE SumRemaining(_)
SumRemaining(orders) ==
  IF orders = <<>> THEN 0
  ELSE remaining_quantity(Head(orders)) + SumRemaining(Tail(orders))

NoOrder == Order_new(0, 0, 0, "Limit", "Bid", 0, 0)

PriceLevel_new(price) == [price |-> price, total_quantity |-> 0, orders |-> <<>>]
\* add_order with push_front in place of push_back
level_add_order_front(level, o) ==
  [level EXCEPT !.total_quantity = @ + remaining_quantity(o),
                !.orders = <<o>> \o @]
\* PriceLevel::add_order
level_add_order(level, o) ==
  [level EXCEPT !.total_quantity = @ + remaining_quantity(o),
                !.orders = Append(@, o)]
\* update_quantity leaving total_quantity as it was
update_quantity_skipped(level) == level
\* PriceLevel::update_quantity
update_quantity(level) == [level EXCEPT !.total_quantity = SumRemaining(level.orders)]
\* orders.iter().position(|o| o.id == order_id); 0 when absent
position(orders, order_id) ==
  LET hits == {i \in 1 .. Len(orders) : orders[i].id = order_id}
  IN  IF hits = {} THEN 0 ELSE CHOOSE i \in hits : \A j \in hits : i <= j
RemoveAt(seq, i) == SubSeq(seq, 1, i - 1) \o SubSeq(seq, i + 1, Len(seq))
\* PriceLevel::remove_order
level_remove_order(level, order_id) ==
  LET pos == position(level.orders, order_id)
  IN  IF pos = 0 THEN [found |-> FALSE, level |-> level, order |-> NoOrder]
      ELSE [found |-> TRUE,
            level |-> [level EXCEPT
                         !.orders = RemoveAt(@, pos),
                         !.total_quantity = @ - remaining_quantity(level.orders[pos])],
            order |-> level.orders[pos]]

OrderBook_new(symbol_id) ==
  [symbol_id |-> symbol_id, bids |-> EmptyMap, asks |-> EmptyMap, orders |-> EmptyMap]

MinOf(S) == CHOOSE x \in S : \A y \in S : x <= y
MaxOf(S) == CHOOSE x \in S : \A y \in S : x >= y
RECURSIVE SortAsc(_)
SortAsc(S) == IF S = {} THEN <<>> ELSE <<MinOf(S)>> \o SortAsc(S \ {MinOf(S)})
RECURSIVE SortDesc(_)
SortDesc(S) == IF S = {} THEN <<>> ELSE <<MaxOf(S)>> \o SortDesc(S \ {MaxOf(S)})

NoTrade == [symbol_id |-> 0, buy_order_id |-> 0, sell_order_id |-> 0,
            buy_account_id |-> 0, sell_account_id |-> 0, price |-> 0, quantity |-> 0]

\* the Trade record with the taker's price in place of the level's
Trade_at_taker_price(taker, maker, price, trade_quantity) ==
  IF taker.side = "Bid"
  THEN [symbol_id |-> taker.symbol_id,
        buy_order_id |-> taker.id, sell_order_id |-> maker.id,
        buy_account_id |-> taker.account_id, sell_account_id |-> maker.account_id,
        price |-> taker.price, quantity |-> trade_quantity]
  ELSE [symbol_id |-> taker.symbol_id,
        buy_order_id |-> maker.id, sell_order_id |-> taker.id,
        buy_account_id |-> maker.account_id, sell_account_id |-> taker.account_id,
        price |-> taker.price, quantity |-> trade_quantity]

\* the Trade record match_at_price creates (the id, a clock reading, is left out)
Trade_of(taker, maker, price, trade_quantity) ==
  IF taker.side = "Bid"
  THEN [symbol_id |-> taker.symbol_id,
        buy_order_id |-> taker.id, sell_order_id |-> maker.id,
        buy_account_id |-> taker.account_id, sell_account_id |-> maker.account_id,
        price |-> price, quantity |-> trade_quantity]
  ELSE [symbol_id |-> taker.symbol_id,
        buy_order_id |-> maker.id, sell_order_id |-> taker.id,
        buy_account_id |-> maker.account_id, sell_account_id |-> taker.account_id,
        price |-> price, quantity |-> trade_quantity]

\* the opposite side of the book a taker matches against, and its replacement
opposite_side(book, taker) == IF taker.side = "Bid" THEN book.asks ELSE book.bids
with_opposite_side(book, taker, side_book) ==
  IF taker.side = "Bid" THEN [book EXCEPT !.asks = side_book]
  ELSE [book EXCEPT !.bids = side_book]

\* match_at_price putting a partly filled maker back behind the orders of its level
requeue_maker_back(book, taker, price, maker, rest) ==
  LET filled == is_filled(maker)
      maker2 == [maker EXCEPT !.status = IF filled THEN "Filled" ELSE "Partial"]
      level1 == update_quantity([price |-> price, total_quantity |-> 0,
                                 orders |-> IF filled THEN rest ELSE rest \o <<maker2>>])
      side_book == opposite_side(book, taker)
      book1 == with_opposite_side(book, taker,
                 IF filled /\ rest = <<>> THEN Drop(side_book, price)
                 ELSE Put(side_book, price, level1))
  IN  [book1 EXCEPT !.orders = Put(@, maker.id, maker2)]

\* match_at_price, after the maker's fill: status, re-queue at the head unless
\* filled, index update, update_quantity, removal of an empty level
requeue_maker(book, taker, price, maker, rest) ==
  LET filled == is_filled(maker)
      maker2 == [maker EXCEPT !.status = IF filled THEN "Filled" ELSE "Partial"]
      level1 == update_quantity([price |-> price, total_quantity |-> 0,
                                 orders |-> IF filled THEN rest ELSE <<maker2>> \o rest])
      side_book == opposite_side(book, taker)
      book1 == with_opposite_side(book, taker,
                 IF filled /\ rest = <<>> THEN Drop(side_book, price)
                 ELSE Put(side_book, price, level1))
  IN  [book1 EXCEPT !.orders = Put(@, maker.id, maker2)]

\* match_at_price, from the popped maker on
fill_maker(book, taker, price, maker0, rest, trade_quantity) ==
  [some |-> TRUE,
   book |-> requeue_maker(book, taker, price,
                          [maker0 EXCEPT !.filled_quantity = @ + trade_quantity], rest),
   taker |-> [taker EXCEPT !.filled_quantity = @ + trade_quantity],
   trade |-> Trade_of(taker, maker0, price, trade_quantity)]

pop_front(book, taker, price, orders) ==
  fill_maker(book, taker, price, Head(orders), Tail(orders),
             Min(remaining_quantity(taker), remaining_quantity(Head(orders))))

\* OrderBook::match_at_price: one fill against the maker at the head of the level
match_at_price(book, taker, price) ==
  IF price \notin DOMAIN opposite_side(book, taker)
  THEN [some |-> FALSE, book |-> book, taker |-> taker, trade |-> NoTrade]
  ELSE IF opposite_side(book, taker)[price].orders = <<>>
  THEN [some |-> FALSE, book |-> book, taker |-> taker, trade |-> NoTrade]
  ELSE pop_front(book, taker, price, opposite_side(book, taker)[price].orders)

\* the `for price in prices_to_match` loop of match_limit_order
RECURSIVE limit_loop(_, _, _, _)
limit_next(m, prices, trades) ==
  limit_loop(m.book, m.taker, prices, IF m.some THEN Append(trades, m.trade) ELSE trades)
limit_loop(book, taker, prices, trades) ==
  IF prices = <<>> \/ remaining_quantity(taker) <= 0
  THEN [book |-> book, taker |-> taker, trades |-> trades]
  ELSE limit_next(match_at_price(book, taker, Head(prices)), Tail(prices), trades)

\* OrderBook::match_limit_order
match_limit_order(book, taker) ==
  limit_loop(book, taker,
             IF taker.side = "Bid"
             THEN SortAsc({p \in DOMAIN book.asks : p <= taker.price})
             ELSE SortDesc({p \in DOMAIN book.bids : p >= taker.price}),
             <<>>)

\* OrderBook::match_market_order: the `while` loop over the best opposite price
RECURSIVE market_loop(_, _, _)
market_next(m, book, taker, trades) ==
  IF m.some THEN market_loop(m.book, m.taker, Append(trades, m.trade))
  ELSE [book |-> book, taker |-> taker, trades |-> trades]
market_loop(book, taker, trades) ==
  IF remaining_quantity(taker) <= 0 \/ DOMAIN opposite_side(book, taker) = {}
  THEN [book |-> book, taker |-> taker, trades |-> trades]
  ELSE market_next(match_at_price(book, taker,
                                  IF taker.side = "Bid"
                                  THEN MinOf(DOMAIN book.asks)
                                  ELSE MaxOf(DOMAIN book.bids)),
                   book, taker, trades)

match_market_order(book, taker) == market_loop(book, taker, <<>>)

\* OrderBook::add_order_to_book
add_order_to_book(book, o) ==
  LET side_book == IF o.side = "Bid" THEN book.bids ELSE book.asks
      level == IF o.price \in DOMAIN side_book THEN side_book[o.price]
               ELSE PriceLevel_new(o.price)
      side_book1 == Put(side_book, o.price, level_add_order(level, o))
  IN  IF o.side = "Bid" THEN [book EXCEPT !.bids = side_book1]
      ELSE [book EXCEPT !.asks = side_book1]

\* add_order resting the residual of an order of any kind
rest_and_index_any_kind(book, taker, trades) ==
  LET book1 == IF remaining_quantity(taker) > 0
               THEN add_order_to_book(book, taker)
               ELSE book
      order1 == IF taker.filled_quantity > 0
                THEN [taker EXCEPT !.status = IF is_filled(taker) THEN "Filled"
                                              ELSE "Partial"]
                ELSE taker
  IN  [book |-> [book1 EXCEPT !.orders = Put(@, taker.id, order1)],
       trades |-> trades]

\* OrderBook::add_order, after matching: rest the residual of a limit order (the
\* copy put in the level is made before the status update), set the status, index
rest_and_index(book, taker, trades) ==
  LET book1 == IF remaining_quantity(taker) > 0 /\ taker.order_type = "Limit"
               THEN add_order_to_book(book, taker)
               ELSE book
      order1 == IF taker.filled_quantity > 0
                THEN [taker EXCEPT !.status = IF is_filled(taker) THEN "Filled"
                                              ELSE "Partial"]
                ELSE taker
  IN  [book |-> [book1 EXCEPT !.orders = Put(@, taker.id, order1)],
       trades |-> trades]

matched(m) == rest_and_index(m.book, m.taker, m.trades)

\* OrderBook::add_order
add_order(book, o) ==
  matched(IF o.order_type = "Market" THEN match_market_order(book, o)
          ELSE match_limit_order(book, o))

\* cancel_order leaving the emptied level in the book
cancel_found_keeping_level(book, o, side_book, r) ==
  LET cancelled_order == [r.order EXCEPT !.status = "Cancelled"]
      side_book1 == Put(side_book, o.price, r.level)
      book1 == IF o.side = "Bid" THEN [book EXCEPT !.bids = side_book1]
               ELSE [book EXCEPT !.asks = side_book1]
  IN  [some |-> TRUE,
       book |-> [book1 EXCEPT !.orders = Put(@, o.id, cancelled_order)],
       order |-> cancelled_order]

\* cancel_order, the order found in its level
cancel_found(book, o, side_book, r) ==
  LET cancelled_order == [r.order EXCEPT !.status = "Cancelled"]
      side_book1 == IF r.level.orders = <<>> THEN Drop(side_book, o.price)
                    ELSE Put(side_book, o.price, r.level)
      book1 == IF o.side = "Bid" THEN [book EXCEPT !.bids = side_book1]
               ELSE [book EXCEPT !.asks = side_book1]
  IN  [some |-> TRUE,
       book |-> [book1 EXCEPT !.orders = Put(@, o.id, cancelled_order)],
       order |-> cancelled_order]

\* cancel_order handing out the indexed order although no level holds it
cancel_missing_as_found(book, o) ==
  [some |-> TRUE, book |-> [book EXCEPT !.orders = Drop(@, o.id)], order |-> o]

\* cancel_order, the order not in a level: it leaves the index
cancel_missing(book, o) ==
  [some |-> FALSE, book |-> [book EXCEPT !.orders = Drop(@, o.id)], order |-> o]

cancel_in_level(book, o, side_book, r) ==
  IF r.found THEN cancel_found(book, o, side_book, r) ELSE cancel_missing(book, o)

cancel_indexed(book, o, side_book) ==
  IF o.price \in DOMAIN side_book
  THEN cancel_in_level(book, o, side_book, level_remove_order(side_book[o.price], o.id))
  ELSE cancel_missing(book, o)

\* OrderBook::cancel_order
book_cancel_order(book, order_id) ==
  IF order_id \notin DOMAIN book.orders
  THEN [some |-> FALSE, book |-> book, order |-> NoOrder]
  ELSE cancel_indexed(book, book.orders[order_id],
                      IF book.orders[order_id].side = "Bid" THEN book.bids ELSE book.asks)

OrderBook_get_best_bid(book) == IF DOMAIN book.bids = {} THEN <<>> ELSE <<MaxOf(DOMAIN book.bids)>>
OrderBook_get_best_ask(book) == IF DOMAIN book.asks = {} THEN <<>> ELSE <<MinOf(DOMAIN book.asks)>>

MatchingEngine_new == [order_books |-> EmptyMap, next_order_id |-> 1, trades |-> <<>>]

\* place_order, after add_order: the book is stored, the trades are logged
placed(engine, symbol_id, order_id, r) ==
  [ok |-> TRUE,
   engine |-> [order_books |-> Put(engine.order_books, symbol_id, r.book),
               next_order_id |-> order_id + 1,
               trades |-> engine.trades \o r.trades],
   order_id |-> order_id, trades |-> r.trades]

\* order_books.entry(symbol_id).or_insert_with(OrderBook::new)
entry_book(engine, symbol_id) ==
  IF symbol_id \in DOMAIN engine.order_books
  THEN engine.order_books[symbol_id] ELSE OrderBook_new(symbol_id)

place_parsed(engine, symbol_id, account_id, order_type, side, pd, qd) ==
  IF ~qd.ok \/ ~pd.ok
  THEN [ok |-> FALSE, engine |-> engine, order_id |-> 0, trades |-> <<>>]
  ELSE placed(engine, symbol_id, engine.next_order_id,
              add_order(entry_book(engine, symbol_id),
                        Order_new(engine.next_order_id, symbol_id, account_id,
                                  order_type, side, pd.value, qd.value)))

\* the price of the order: a sentinel for a market order, else the parsed string
order_price(order_type, side, price_str) ==
  IF order_type = "Market"
  THEN [ok |-> TRUE, value |-> IF side = "Bid" THEN DECIMAL_MAX ELSE 0]
  ELSE from_str_exact(price_str)

\* MatchingEngine::place_order
place_order(engine, symbol_id, account_id, order_type_code, side_code, price_str, quantity_str) ==
  place_parsed(engine, symbol_id, account_id,
               OrderType_from(order_type_code), OrderSide_from(side_code),
               order_price(OrderType_from(order_type_code), OrderSide_from(side_code),
                           price_str),
               from_str_exact(quantity_str))

cancelled(engine, symbol_id, r) ==
  [some |-> r.some,
   engine |-> [engine EXCEPT !.order_books = Put(@, symbol_id, r.book)],
   order |-> r.order]

\* MatchingEngine::cancel_order
engine_cancel_order(engine, symbol_id, order_id) ==
  IF symbol_id \notin DOMAIN engine.order_books
  THEN [some |-> FALSE, engine |-> engine, order |-> NoOrder]
  ELSE cancelled(engine, symbol_id,
                 book_cancel_order(engine.order_books[symbol_id], order_id))

(***************************************************************************)
(* State                                                                   *)
(***************************************************************************)
VARIABLES
  accounts,                  \* [shard -> BalanceManager.accounts] of each sequencer
  receiver,                  \* [shard -> queue of SequencerMessage]
  trade_execution_receiver,  \* [shard -> queue of TradeExecutionMessage]
  match_senders,             \* [shard -> length of the sequencer's match_senders]
  running,                   \* [shard -> the sequencer thread has not panicked]
  match_receiver,            \* [shard -> queue of MatchMessage]
  matching_engine,           \* [shard -> MatchingEngine] of each matcher
  oneshot,                   \* [slot -> one-shot reply channel of an edge handler]
  deposited                  \* [account -> [currency -> successful Increase - Decrease]]

vars == <<accounts, receiver, trade_execution_receiver, match_senders, running,
          match_receiver, matching_engine, oneshot, deposited>>

seq_vars == <<accounts, receiver, trade_execution_receiver, match_senders, running>>
match_vars == <<match_receiver, matching_engine>>

(***************************************************************************)
(* Inputs the edge sends                                                   *)
(***************************************************************************)
IncreaseStrs == {Str(MaxBalance)}
DecreaseStrs == {Str(MaxBalance)}
PriceStrs == {Str(n) : n \in 1 .. MaxPrice}
QuantityStrs == {Str(n) : n \in 1 .. MaxQuantity}
KindCodes == {0, 1}
SideCodes == {0, 1}
OrderIds == 1 .. MaxOrders

\* a one-shot channel: not in use, open, holding the response, or closed because
\* its sender was dropped unsent (the handler then returns Status::internal)
Idle == [state |-> "idle"]
Waiting == [state |-> "waiting"]
Ready(response) == [state |-> "ready", response |-> response]
Dropped == [state |-> "dropped"]

\* main.rs:44-57 hands each sequencer match_senders.clone() before any matcher
\* sender is pushed (length 0); SequencerProcessor::new takes any list, and the
\* data flow edge -> sequencer -> matcher needs all SHARD_COUNT of them
Wirings == {0, SHARD_COUNT}

Init ==
  /\ accounts = [s \in Shards |-> EmptyMap]
  /\ receiver = [s \in Shards |-> <<>>]
  /\ trade_execution_receiver = [s \in Shards |-> <<>>]
  /\ \E n \in Wirings : match_senders = [s \in Shards |-> n]
  /\ running = [s \in Shards |-> TRUE]
  /\ match_receiver = [s \in Shards |-> <<>>]
  /\ matching_engine = [s \in Shards |-> MatchingEngine_new]
  /\ oneshot = [k \in Slots |-> Idle]
  /\ deposited = [a \in Accounts |-> [c \in Currencies |-> 0]]

(***************************************************************************)
(* Edge router (grpc.rs): build the message, pick the shard, send, await   *)
(***************************************************************************)
RECURSIVE CountType(_, _)
CountType(queue, type) ==
  IF queue = <<>> THEN 0
  ELSE (IF Head(queue).type = type THEN 1 ELSE 0) + CountType(Tail(queue), type)
RECURSIVE SumOver(_, _)
SumOver(f, S) ==
  IF S = {} THEN 0
  ELSE LET x == CHOOSE y \in S : TRUE IN f[x] + SumOver(f, S \ {x})

\* PlaceOrder messages on their way plus order ids already handed out
OrdersInSystem ==
  SumOver([s \in Shards |-> CountType(receiver[s], "PlaceOrder")
                            + CountType(match_receiver[s], "PlaceOrder")
                            + (matching_engine[s].next_order_id - 1)], Shards)

\* sender.send(message) to sequencer_senders[shard_index], then await the reply
edge_send(k, message) ==
  LET s == shard_index(message.account_id, SHARD_COUNT)
      msg == [message EXCEPT !.response_sender = k]
  IN  /\ oneshot[k].state = "idle"
      /\ running[s]
      /\ receiver' = [receiver EXCEPT ![s] = Append(@, msg)]
      /\ oneshot' = [oneshot EXCEPT ![k] = Waiting]
      /\ UNCHANGED <<accounts, trade_execution_receiver, match_senders, running,
                     match_receiver, matching_engine, deposited>>

Edge_get_account ==
  \E k \in Slots, a \in Accounts :
    edge_send(k, [type |-> "GetAccount", account_id |-> a, response_sender |-> 0])

Edge_increase ==
  \E k \in Slots, a \in Accounts, c \in Currencies, amount \in IncreaseStrs :
    /\ deposited[a][c] + amount.value <= MaxBalance
    /\ edge_send(k, [type |-> "Increase", account_id |-> a, currency_id |-> c,
                     amount |-> amount, response_sender |-> 0])

Edge_decrease ==
  \E k \in Slots, a \in Accounts, c \in Currencies, amount \in DecreaseStrs :
    edge_send(k, [type |-> "Decrease", account_id |-> a, currency_id |-> c,
                  amount |-> amount, response_sender |-> 0])

\* place_order of the edge, for the clients of one workload: the order kinds they
\* send and the number of orders after which they stop
edge_place_order(kinds, max_orders) ==
  /\ OrdersInSystem < max_orders
  /\ \E k \in Slots, a \in Accounts, symbol_id \in SymbolIds, kind \in kinds,
        side \in SideCodes, price \in PriceStrs, quantity \in QuantityStrs :
       edge_send(k, [type |-> "PlaceOrder", symbol_id |-> symbol_id, account_id |-> a,
                  order_type |-> kind, side |-> side, price |-> price,
                  quantity |-> quantity, response_sender |-> 0])

Edge_place_order == edge_place_order(KindCodes, MaxOrders)

Edge_cancel_order ==
  \E k \in Slots, a \in Accounts, symbol_id \in SymbolIds, order_id \in OrderIds :
    edge_send(k, [type |-> "CancelOrder", symbol_id |-> symbol_id, account_id |-> a,
                  order_id |-> order_id, response_sender |-> 0])

\* response_receiver.await returns: the handler ends and its channel is gone
Edge_await ==
  \E k \in Slots :
    /\ oneshot[k].state \in {"ready", "dropped"}
    /\ oneshot' = [oneshot EXCEPT ![k] = Idle]
    /\ UNCHANGED <<seq_vars, match_vars, deposited>>

PlaceOrderResponse(code, id) == [type |-> "PlaceOrderResponse", code |-> code, id |-> id]
\* cancelled_quantity is None (here 0) unless code = 0
CancelOrderResponse(code, order_id, cancelled_quantity) ==
  [type |-> "CancelOrderResponse", code |-> code, order_id |-> order_id,
   cancelled_quantity |-> cancelled_quantity]

\* response_sender.send(response)
reply(chan, k, response) == [chan EXCEPT ![k] = Ready(response)]

(***************************************************************************)
(* SequencerProcessor (processor.rs)                                       *)
(***************************************************************************)
\* execute_single_trade with the buyer's payment taken from available, not frozen
execute_single_trade_from_available(bm, id, trade) ==
  IF ~symbol_known(trade.symbol_id) THEN bm
  ELSE
    LET symbol == get_symbol(trade.symbol_id)
        quote_amount == trade.price * trade.quantity
        buy_shard == Abs(Rem(trade.buy_account_id, OWNER_MODULUS))
        sell_shard == Abs(Rem(trade.sell_account_id, OWNER_MODULUS))
        bq == balance_of(bm, trade.buy_account_id, symbol.quote)
        bm1 == with_balance(bm, trade.buy_account_id, symbol.quote,
                 [bq EXCEPT !.available = @ - quote_amount, !.total = @ - quote_amount])
        bb == balance_of(bm1, trade.buy_account_id, symbol.base)
        bm2 == with_balance(bm1, trade.buy_account_id, symbol.base,
                 [bb EXCEPT !.total = @ + trade.quantity,
                            !.available = @ + trade.quantity])
        bm3 == IF buy_shard = id THEN bm2 ELSE bm
        sb == balance_of(bm3, trade.sell_account_id, symbol.base)
        bm4 == with_balance(bm3, trade.sell_account_id, symbol.base,
                 [sb EXCEPT !.frozen = @ - trade.quantity, !.total = @ - trade.quantity])
        sq == balance_of(bm4, trade.sell_account_id, symbol.quote)
        bm5 == with_balance(bm4, trade.sell_account_id, symbol.quote,
                 [sq EXCEPT !.total = @ + quote_amount, !.available = @ + quote_amount])
    IN  IF sell_shard = id THEN bm5 ELSE bm3

\* a settlement that applies the buyer branch only
execute_single_trade_buyer_only(bm, id, trade) ==
  IF ~symbol_known(trade.symbol_id) THEN bm
  ELSE
    LET symbol == get_symbol(trade.symbol_id)
        quote_amount == trade.price * trade.quantity
        buy_shard == Abs(Rem(trade.buy_account_id, OWNER_MODULUS))
        bq == balance_of(bm, trade.buy_account_id, symbol.quote)
        bm1 == with_balance(bm, trade.buy_account_id, symbol.quote,
                 [bq EXCEPT !.frozen = @ - quote_amount, !.total = @ - quote_amount])
        bb == balance_of(bm1, trade.buy_account_id, symbol.base)
        bm2 == with_balance(bm1, trade.buy_account_id, symbol.base,
                 [bb EXCEPT !.total = @ + trade.quantity,
                            !.available = @ + trade.quantity])
    IN  IF buy_shard = id THEN bm2 ELSE bm

\* SequencerProcessor::execute_single_trade
execute_single_trade(bm, id, trade) ==
  IF ~symbol_known(trade.symbol_id) THEN bm
  ELSE
    LET symbol == get_symbol(trade.symbol_id)
        quote_amount == trade.price * trade.quantity
        buy_shard == Abs(Rem(trade.buy_account_id, OWNER_MODULUS))
        sell_shard == Abs(Rem(trade.sell_account_id, OWNER_MODULUS))
        bq == balance_of(bm, trade.buy_account_id, symbol.quote)
        bm1 == with_balance(bm, trade.buy_account_id, symbol.quote,
                 [bq EXCEPT !.frozen = @ - quote_amount, !.total = @ - quote_amount])
        bb == balance_of(bm1, trade.buy_account_id, symbol.base)
        bm2 == with_balance(bm1, trade.buy_account_id, symbol.base,
                 [bb EXCEPT !.total = @ + trade.quantity,
                            !.available = @ + trade.quantity])
        bm3 == IF buy_shard = id THEN bm2 ELSE bm
        sb == balance_of(bm3, trade.sell_account_id, symbol.base)
        bm4 == with_balance(bm3, trade.sell_account_id, symbol.base,
                 [sb EXCEPT !.frozen = @ - trade.quantity, !.total = @ - trade.quantity])
        sq == balance_of(bm4, trade.sell_account_id, symbol.quote)
        bm5 == with_balance(bm4, trade.sell_account_id, symbol.quote,
                 [sq EXCEPT !.total = @ + quote_amount, !.available = @ + quote_amount])
    IN  IF sell_shard = id THEN bm5 ELSE bm3

\* the refund of a Bid taken to be the remaining quantity, as for an Ask
unfreeze_request_quantity_only(order) ==
  LET symbol == get_symbol(order.symbol_id)
  IN  IF order.side = "Bid"
      THEN [currency |-> symbol.quote, amount |-> remaining_quantity(order)]
      ELSE [currency |-> symbol.base, amount |-> remaining_quantity(order)]

\* the (currency, amount) unfreeze_order_balance computes from the order snapshot
unfreeze_request(order) ==
  LET symbol == get_symbol(order.symbol_id)
  IN  IF order.side = "Bid"
      THEN [currency |-> symbol.quote, amount |-> order.price * remaining_quantity(order)]
      ELSE [currency |-> symbol.base, amount |-> remaining_quantity(order)]

\* unfreeze_order_balance without the test of the frozen balance
unfreeze_order_balance_unclamped(bm, id, order) ==
  IF ~symbol_known(order.symbol_id) THEN bm
  ELSE
    LET u == unfreeze_request(order)
        account_shard == Abs(Rem(order.account_id, OWNER_MODULUS))
        balance == balance_of(bm, order.account_id, u.currency)
    IN  IF account_shard # id THEN bm
        ELSE with_balance(bm, order.account_id, u.currency,
               [balance EXCEPT !.frozen = @ - u.amount, !.available = @ + u.amount])

\* SequencerProcessor::unfreeze_order_balance
unfreeze_order_balance(bm, id, order) ==
  IF ~symbol_known(order.symbol_id) THEN bm
  ELSE
    LET u == unfreeze_request(order)
        account_shard == Abs(Rem(order.account_id, OWNER_MODULUS))
        balance == balance_of(bm, order.account_id, u.currency)
    IN  IF account_shard # id THEN bm
        ELSE IF balance.frozen < u.amount
             THEN with_balance(bm, order.account_id, u.currency,
                    [balance EXCEPT !.frozen = 0, !.available = @ + balance.frozen])
        ELSE with_balance(bm, order.account_id, u.currency,
               [balance EXCEPT !.frozen = @ - u.amount, !.available = @ + u.amount])

\* the reply channels held by the messages of a queue
SendersIn(queue) == {queue[i].response_sender : i \in 1 .. Len(queue)}

\* `symbol_id % self.match_senders.len() as i32` with an empty list: the thread
\* panics (remainder by zero) and unwinds, dropping the processor, its receivers
\* and every reply sender they hold; bm is the manager at that moment
sequencer_panics(s, bm) ==
  LET lost == SendersIn(receiver[s])
  IN  /\ running' = [running EXCEPT ![s] = FALSE]
      /\ accounts' = [accounts EXCEPT ![s] = bm]
      /\ receiver' = [receiver EXCEPT ![s] = <<>>]
      /\ trade_execution_receiver' = [trade_execution_receiver EXCEPT ![s] = <<>>]
      /\ oneshot' = [k \in Slots |-> IF k \in lost THEN Dropped
                                     ELSE oneshot[k]]
      /\ UNCHANGED <<match_senders, match_vars, deposited>>

\* forward to match_senders[shard_index]
forward_to_matcher(s, bm, msg) ==
  LET m == shard_index(msg.symbol_id, match_senders[s])
  IN  /\ accounts' = [accounts EXCEPT ![s] = bm]
      /\ receiver' = [receiver EXCEPT ![s] = Tail(@)]
      /\ match_receiver' = [match_receiver EXCEPT ![m] = Append(@, msg)]
      /\ UNCHANGED <<trade_execution_receiver, match_senders, running,
                     matching_engine, oneshot, deposited>>

\* answer on the message's own channel and take it off the mailbox
sequencer_replies(s, bm, msg, response) ==
  /\ accounts' = [accounts EXCEPT ![s] = bm]
  /\ receiver' = [receiver EXCEPT ![s] = Tail(@)]
  /\ oneshot' = reply(oneshot, msg.response_sender, response)
  /\ UNCHANGED <<trade_execution_receiver, match_senders, running, match_vars>>

Ready_sequencer(s, type) ==
  /\ running[s]
  /\ receiver[s] # <<>>
  /\ Head(receiver[s]).type = type

Sequencer_get_account ==
  \E s \in Shards :
    /\ Ready_sequencer(s, "GetAccount")
    /\ LET msg == Head(receiver[s])
       IN  sequencer_replies(s, accounts[s], msg,
                             handle_get_account(accounts[s], msg.account_id))
    /\ UNCHANGED deposited

Sequencer_increase ==
  \E s \in Shards :
    /\ Ready_sequencer(s, "Increase")
    /\ LET msg == Head(receiver[s])
           r == handle_increase(accounts[s], msg.account_id, msg.currency_id, msg.amount)
       IN  /\ sequencer_replies(s, r.bm, msg, [type |-> "IncreaseResponse",
                                                    code |-> r.code, data |-> r.data])
           /\ deposited' = IF r.code = 0
                           THEN [deposited EXCEPT ![msg.account_id][msg.currency_id] =
                                                    @ + msg.amount.value]
                           ELSE deposited

Sequencer_decrease ==
  \E s \in Shards :
    /\ Ready_sequencer(s, "Decrease")
    /\ LET msg == Head(receiver[s])
           r == handle_decrease(accounts[s], msg.account_id, msg.currency_id, msg.amount)
       IN  /\ sequencer_replies(s, r.bm, msg, [type |-> "DecreaseResponse",
                                                    code |-> r.code, data |-> r.data])
           /\ deposited' = IF r.code = 0
                           THEN [deposited EXCEPT ![msg.account_id][msg.currency_id] =
                                                    @ - msg.amount.value]
                           ELSE deposited

Sequencer_place_order ==
  \E s \in Shards :
    /\ Ready_sequencer(s, "PlaceOrder")
    /\ LET msg == Head(receiver[s])
           r == handle_place_order(accounts[s], msg.account_id, msg.symbol_id,
                                   msg.side, msg.price, msg.quantity)
       IN  IF r.ok
           THEN IF match_senders[s] = 0 THEN sequencer_panics(s, r.bm)
                ELSE forward_to_matcher(s, r.bm, msg)
           ELSE /\ sequencer_replies(s, r.bm, msg, PlaceOrderResponse(400, 0))
                /\ UNCHANGED deposited

Sequencer_cancel_order ==
  \E s \in Shards :
    /\ Ready_sequencer(s, "CancelOrder")
    /\ LET msg == Head(receiver[s])
       IN  IF match_senders[s] = 0 THEN sequencer_panics(s, accounts[s])
           ELSE forward_to_matcher(s, accounts[s], msg)

\* SequencerProcessor::process_trade_execution_message
Sequencer_trade_execution ==
  \E s \in Shards :
    /\ running[s]
    /\ trade_execution_receiver[s] # <<>>
    /\ LET msg == Head(trade_execution_receiver[s])
       IN  accounts' = [accounts EXCEPT ![s] =
                          IF msg.type = "ExecuteTrade"
                          THEN execute_single_trade(@, s, msg.trade)
                          ELSE unfreeze_order_balance(@, s, msg.order)]
    /\ trade_execution_receiver' = [trade_execution_receiver EXCEPT ![s] = Tail(@)]
    /\ UNCHANGED <<receiver, match_senders, running, match_vars, oneshot, deposited>>

(***************************************************************************)
(* MatchProcessor (processor.rs)                                           *)
(***************************************************************************)
\* sender.send(msg) on sequencer_senders[shard]; an error (receiver gone) is logged
send_to_sequencer(queues, shard, msg) ==
  IF running[shard] THEN [queues EXCEPT ![shard] = Append(@, msg)] ELSE queues

\* a matcher that answers without sending the trades to any sequencer
execute_trades_not_sent(queues, trades) == queues

\* MatchProcessor::execute_trades: the `for trade in &trades` loop
RECURSIVE execute_trades(_, _)
execute_trades(queues, trades) ==
  IF trades = <<>> THEN queues
  ELSE LET trade == Head(trades)
           buy_shard == shard_index(trade.buy_account_id, SHARD_COUNT)
       IN  execute_trades(
             send_to_sequencer(queues, buy_shard,
                               [type |-> "ExecuteTrade", trade |-> trade]),
             Tail(trades))

Ready_matcher(m, type) ==
  /\ match_receiver[m] # <<>>
  /\ Head(match_receiver[m]).type = type

\* MatchProcessor::handle_place_order
Match_place_order ==
  \E m \in Shards :
    /\ Ready_matcher(m, "PlaceOrder")
    /\ LET msg == Head(match_receiver[m])
           r == place_order(matching_engine[m], msg.symbol_id, msg.account_id,
                            msg.order_type, msg.side, msg.price, msg.quantity)
       IN  /\ matching_engine' = [matching_engine EXCEPT ![m] = r.engine]
           /\ trade_execution_receiver' =
                execute_trades(trade_execution_receiver, r.trades)
           /\ oneshot' = reply(oneshot, msg.response_sender,
                               IF r.ok THEN PlaceOrderResponse(0, r.order_id)
                               ELSE PlaceOrderResponse(400, 0))
    /\ match_receiver' = [match_receiver EXCEPT ![m] = Tail(@)]
    /\ UNCHANGED <<accounts, receiver, match_senders, running, deposited>>

\* MatchProcessor::handle_cancel_order
Match_cancel_order ==
  \E m \in Shards :
    /\ Ready_matcher(m, "CancelOrder")
    /\ LET msg == Head(match_receiver[m])
           r == engine_cancel_order(matching_engine[m], msg.symbol_id, msg.order_id)
           unfreeze_shard == shard_index(msg.account_id, SHARD_COUNT)
       IN  /\ matching_engine' = [matching_engine EXCEPT ![m] = r.engine]
           /\ IF r.some /\ r.order.account_id = msg.account_id
              THEN /\ trade_execution_receiver' =
                        send_to_sequencer(trade_execution_receiver, unfreeze_shard,
                                          [type |-> "UnfreezeOrder", order |-> r.order])
                   /\ oneshot' = reply(oneshot, msg.response_sender,
                                   CancelOrderResponse(0, msg.order_id,
                                                       remaining_quantity(r.order)))
              ELSE /\ UNCHANGED trade_execution_receiver
                   /\ oneshot' = reply(oneshot, msg.response_sender,
                                   CancelOrderResponse(IF r.some THEN 403 ELSE 404,
                                                       msg.order_id, 0))
    /\ match_receiver' = [match_receiver EXCEPT ![m] = Tail(@)]
    /\ UNCHANGED <<accounts, receiver, match_senders, running, deposited>>

Next ==
  \/ Edge_get_account
  \/ Edge_increase
  \/ Edge_decrease
  \/ Edge_place_order
  \/ Edge_cancel_order
  \/ Edge_await
  \/ Sequencer_get_account
  \/ Sequencer_increase
  \/ Sequencer_decrease
  \/ Sequencer_place_order
  \/ Sequencer_cancel_order
  \/ Sequencer_trade_execution
  \/ Match_place_order
  \/ Match_cancel_order

Spec == Init /\ [][Next]_vars

(***************************************************************************)
(* The limit-order workload: both accounts funded for every order they may *)
(* place (the state after a successful Increase of SweepFunds per account  *)
(* and currency), all matchers wired, clients that send limit orders only  *)
(***************************************************************************)
SweepFunds == MaxSweepOrders * MaxPrice * MaxQuantity

Funded == [c \in Currencies |->
             [total |-> SweepFunds, frozen |-> 0, available |-> SweepFunds]]

SweepInit ==
  /\ accounts = [s \in Shards |->
                   [a \in {x \in Accounts : shard_index(x, SHARD_COUNT) = s} |-> Funded]]
  /\ receiver = [s \in Shards |-> <<>>]
  /\ trade_execution_receiver = [s \in Shards |-> <<>>]
  /\ match_senders = [s \in Shards |-> SHARD_COUNT]
  /\ running = [s \in Shards |-> TRUE]
  /\ match_receiver = [s \in Shards |-> <<>>]
  /\ matching_engine = [s \in Shards |-> MatchingEngine_new]
  /\ oneshot = [k \in Slots |-> Idle]
  /\ deposited = [a \in Accounts |-> [c \in Currencies |-> SweepFunds]]

Sweep_place_order == edge_place_order({0}, MaxSweepOrders)

SweepNext ==
  \/ Sweep_place_order
  \/ Edge_await
  \/ Sequencer_place_order
  \/ Sequencer_trade_execution
  \/ Match_place_order

SpecSweep == SweepInit /\ [][SweepNext]_vars

(***************************************************************************)
(* The order-book workload: the funded accounts of the limit-order         *)
(* workload, clients that send limit and market orders                     *)
(***************************************************************************)
Book_place_order == edge_place_order(KindCodes, MaxSweepOrders)

BookNext ==
  \/ Book_place_order
  \/ Edge_await
  \/ Sequencer_place_order
  \/ Sequencer_trade_execution
  \/ Match_place_order

SpecBook == SweepInit /\ [][BookNext]_vars

(***************************************************************************)
(* The cancel workload: the funded accounts of the limit-order workload,   *)
(* clients that send limit and market orders of one unit and cancel any    *)
(* order id the matcher may have handed out                                *)
(***************************************************************************)
UnitQuantityStrs == {Str(1)}

Cancel_place_order ==
  /\ OrdersInSystem < MaxSweepOrders
  /\ \E k \in Slots, a \in Accounts, symbol_id \in SymbolIds, kind \in KindCodes,
        side \in SideCodes, price \in PriceStrs, quantity \in UnitQuantityStrs :
       edge_send(k, [type |-> "PlaceOrder", symbol_id |-> symbol_id, account_id |-> a,
                  order_type |-> kind, side |-> side, price |-> price,
                  quantity |-> quantity, response_sender |-> 0])

Cancel_cancel_order ==
  \E k \in Slots, a \in Accounts, symbol_id \in SymbolIds,
     order_id \in 1 .. MaxSweepOrders :
    edge_send(k, [type |-> "CancelOrder", symbol_id |-> symbol_id, account_id |-> a,
                  order_id |-> order_id, response_sender |-> 0])

CancelNext ==
  \/ Cancel_place_order
  \/ Cancel_cancel_order
  \/ Edge_await
  \/ Sequencer_place_order
  \/ Sequencer_cancel_order
  \/ Sequencer_trade_execution
  \/ Match_place_order
  \/ Match_cancel_order

SpecCancel == SweepInit /\ [][CancelNext]_vars

(***************************************************************************)
(* The routing workload: a deployment of n sequencers for any shard count  *)
(* n (SequencerProcessor::new and MatchProcessor::new take any id and any  *)
(* list of senders); a matcher routes settlements and refunds over its     *)
(* sequencer_senders, one per sequencer, and the sequencers apply them     *)
(***************************************************************************)
ShardCounts == (1 .. MaxShards) \cup {SHARD_COUNT}

\* sequencer_senders.len() of the matchers: one sender per sequencer mailbox
sequencer_senders_len == Cardinality(DOMAIN trade_execution_receiver)

RoutingInit ==
  \E n \in ShardCounts :
    /\ accounts = [s \in 0 .. n - 1 |-> EmptyMap]
    /\ receiver = [s \in 0 .. n - 1 |-> <<>>]
    /\ trade_execution_receiver = [s \in 0 .. n - 1 |-> <<>>]
    /\ match_senders = [s \in 0 .. n - 1 |-> n]
    /\ running = [s \in 0 .. n - 1 |-> TRUE]
    /\ match_receiver = [s \in 0 .. n - 1 |-> <<>>]
    /\ matching_engine = [s \in 0 .. n - 1 |-> MatchingEngine_new]
    /\ oneshot = [k \in Slots |-> Idle]
    /\ deposited = [a \in Accounts |-> [c \in Currencies |-> 0]]

\* the settlements applied so far stay within MaxRouted per balance
RoutingBounded ==
  \A s \in DOMAIN accounts : \A a \in DOMAIN accounts[s] : \A c \in DOMAIN accounts[s][a] :
    Abs(accounts[s][a][c].available) < MaxRouted

\* MatchProcessor::execute_trades: one ExecuteTrade to the buyer's shard
Routing_execute_trade ==
  \E buyer \in Accounts, seller \in Accounts, price \in 1 .. MaxPrice,
     quantity \in 1 .. MaxQuantity :
    LET trade == [symbol_id |-> BTC_USDT, buy_order_id |-> 1, sell_order_id |-> 2,
                  buy_account_id |-> buyer, sell_account_id |-> seller,
                  price |-> price, quantity |-> quantity]
        buy_shard == shard_index(buyer, sequencer_senders_len)
    IN  /\ RoutingBounded
        /\ Len(trade_execution_receiver[buy_shard]) < MaxInFlight
        /\ trade_execution_receiver' =
             send_to_sequencer(trade_execution_receiver, buy_shard,
                               [type |-> "ExecuteTrade", trade |-> trade])
        /\ UNCHANGED <<accounts, receiver, match_senders, running, match_vars,
                       oneshot, deposited>>

\* MatchProcessor::handle_cancel_order: the UnfreezeOrder to the requester's shard
Routing_unfreeze_order ==
  \E a \in Accounts, side \in {"Bid", "Ask"}, price \in 1 .. MaxPrice,
     quantity \in 1 .. MaxQuantity :
    LET order == [Order_new(1, BTC_USDT, a, "Limit", side, price, quantity)
                    EXCEPT !.status = "Cancelled"]
        shard == shard_index(a, sequencer_senders_len)
    IN  /\ RoutingBounded
        /\ Len(trade_execution_receiver[shard]) < MaxInFlight
        /\ trade_execution_receiver' =
             send_to_sequencer(trade_execution_receiver, shard,
                               [type |-> "UnfreezeOrder", order |-> order])
        /\ UNCHANGED <<accounts, receiver, match_senders, running, match_vars,
                       oneshot, deposited>>

\* SequencerProcessor::process_trade_execution_message of any of the n sequencers
Routing_trade_execution ==
  \E s \in DOMAIN trade_execution_receiver :
    /\ running[s]
    /\ trade_execution_receiver[s] # <<>>
    /\ LET msg == Head(trade_execution_receiver[s])
       IN  accounts' = [accounts EXCEPT ![s] =
                          IF msg.type = "ExecuteTrade"
                          THEN execute_single_trade(@, s, msg.trade)
                          ELSE unfreeze_order_balance(@, s, msg.order)]
    /\ trade_execution_receiver' = [trade_execution_receiver EXCEPT ![s] = Tail(@)]
    /\ UNCHANGED <<receiver, match_senders, running, match_vars, oneshot, deposited>>

RoutingNext ==
  \/ Routing_execute_trade
  \/ Routing_unfreeze_order
  \/ Routing_trade_execution

SpecRouting == RoutingInit /\ [][RoutingNext]_vars

(***************************************************************************)
(* GetOrderBook: the edge sends it straight to the matcher of the symbol   *)
(* (the timestamp of the response, a clock reading, is left out)           *)
(***************************************************************************)
Take(seq, n) == SubSeq(seq, 1, IF n < Len(seq) THEN n ELSE Len(seq))

\* get_market_depth with the bids taken from the lowest price up
get_market_depth_bids_ascending(book, levels) ==
  [bids |-> Take([i \in 1 .. Cardinality(DOMAIN book.bids) |->
                    [price |-> SortAsc(DOMAIN book.bids)[i],
                     quantity |-> book.bids[SortAsc(DOMAIN book.bids)[i]].total_quantity]],
                 levels),
   asks |-> Take([i \in 1 .. Cardinality(DOMAIN book.asks) |->
                    [price |-> SortAsc(DOMAIN book.asks)[i],
                     quantity |-> book.asks[SortAsc(DOMAIN book.asks)[i]].total_quantity]],
                 levels)]

\* OrderBook::get_market_depth: bids.iter().rev().take(levels), asks.iter().take(levels)
get_market_depth(book, levels) ==
  [bids |-> Take([i \in 1 .. Cardinality(DOMAIN book.bids) |->
                    [price |-> SortDesc(DOMAIN book.bids)[i],
                     quantity |-> book.bids[SortDesc(DOMAIN book.bids)[i]].total_quantity]],
                 levels),
   asks |-> Take([i \in 1 .. Cardinality(DOMAIN book.asks) |->
                    [price |-> SortAsc(DOMAIN book.asks)[i],
                     quantity |-> book.asks[SortAsc(DOMAIN book.asks)[i]].total_quantity]],
                 levels)]

\* OrderBook::get_spread
OrderBook_get_spread(book) ==
  IF OrderBook_get_best_bid(book) # <<>> /\ OrderBook_get_best_ask(book) # <<>>
  THEN <<OrderBook_get_best_ask(book)[1] - OrderBook_get_best_bid(book)[1]>>
  ELSE <<>>

\* Option::map(|p| p.to_string())
option_to_string(opt) == IF opt = <<>> THEN <<>> ELSE <<to_string(opt[1])>>

\* the schema::PriceLevel list of a side of the depth
schema_levels(side) ==
  [i \in DOMAIN side |-> [price |-> to_string(side[i].price),
                          quantity |-> to_string(side[i].quantity)]]

order_book_response(order_book, symbol_id, depth) ==
  [type |-> "GetOrderBookResponse", code |-> 0, symbol_id |-> symbol_id,
   bids |-> schema_levels(depth.bids), asks |-> schema_levels(depth.asks),
   best_bid |-> option_to_string(OrderBook_get_best_bid(order_book)),
   best_ask |-> option_to_string(OrderBook_get_best_ask(order_book)),
   spread |-> option_to_string(OrderBook_get_spread(order_book))]

\* MatchProcessor::handle_get_order_book
handle_get_order_book(engine, symbol_id, levels) ==
  IF symbol_id \in DOMAIN engine.order_books
  THEN order_book_response(engine.order_books[symbol_id], symbol_id,
                           get_market_depth(engine.order_books[symbol_id],
                                            IF levels <= 0 THEN DEFAULT_LEVELS ELSE levels))
  ELSE [type |-> "GetOrderBookResponse", code |-> 404, symbol_id |-> symbol_id,
        bids |-> <<>>, asks |-> <<>>, best_bid |-> <<>>, best_ask |-> <<>>,
        spread |-> <<>>]

\* the levels field of a GetOrderBookRequest: absent, or any i32
LevelsOptions == {<<>>} \cup {<<n>> : n \in -1 .. MaxLevels}

\* LightningService::get_order_book: levels.unwrap_or(20), send to the matcher
Edge_get_order_book ==
  \E k \in Slots, symbol_id \in SymbolIds, levels \in LevelsOptions :
    /\ oneshot[k].state = "idle"
    /\ match_receiver' =
         [match_receiver EXCEPT ![shard_index(symbol_id, SHARD_COUNT)] =
            Append(@, [type |-> "GetOrderBook", symbol_id |-> symbol_id,
                       levels |-> IF levels = <<>> THEN DEFAULT_LEVELS ELSE levels[1],
                       response_sender |-> k])]
    /\ oneshot' = [oneshot EXCEPT ![k] = Waiting]
    /\ UNCHANGED <<seq_vars, matching_engine, deposited>>

Match_get_order_book ==
  \E m \in Shards :
    /\ Ready_matcher(m, "GetOrderBook")
    /\ oneshot' = reply(oneshot, Head(match_receiver[m]).response_sender,
                        handle_get_order_book(matching_engine[m],
                                              Head(match_receiver[m]).symbol_id,
                                              Head(match_receiver[m]).levels))
    /\ match_receiver' = [match_receiver EXCEPT ![m] = Tail(@)]
    /\ UNCHANGED <<seq_vars, matching_engine, deposited>>

\* The depth workload: the limit-order workload with clients that also read the book
DepthNext ==
  \/ Sweep_place_order
  \/ Edge_get_order_book
  \/ Edge_await
  \/ Sequencer_place_order
  \/ Sequencer_trade_execution
  \/ Match_place_order
  \/ Match_get_order_book

SpecDepth == SweepInit /\ [][DepthNext]_vars

(***************************************************************************)
(* Trade ids. match_at_price stamps each trade with generate_trade_id(),   *)
(* the wall clock (SystemTime::now) in nanoseconds; no code reads the id,  *)
(* so the workloads above leave it out. SystemTime is not monotonic and    *)
(* two readings may coincide: a reading is any value of Clock              *)
(***************************************************************************)
Clock == 1 .. MaxClock

\* OrderBook::generate_trade_id, given the reading of the clock
generate_trade_id(now) == now

\* the trades of one place_order with the ids match_at_price gave them
with_trade_ids(trades, ticks) ==
  [i \in DOMAIN trades |-> [id |-> generate_trade_id(ticks[i])] @@ trades[i]]

\* MatchProcessor::handle_place_order with the trade ids kept
Clocked_place_order ==
  \E m \in Shards :
    /\ Ready_matcher(m, "PlaceOrder")
    /\ LET msg == Head(match_receiver[m])
           r == place_order(matching_engine[m], msg.symbol_id, msg.account_id,
                            msg.order_type, msg.side, msg.price, msg.quantity)
       IN  \E ticks \in [DOMAIN r.trades -> Clock] :
             /\ matching_engine' =
                  [matching_engine EXCEPT ![m] =
                     [r.engine EXCEPT !.trades = matching_engine[m].trades
                                                   \o with_trade_ids(r.trades, ticks)]]
             /\ trade_execution_receiver' =
                  execute_trades(trade_execution_receiver,
                                 with_trade_ids(r.trades, ticks))
             /\ oneshot' = reply(oneshot, msg.response_sender,
                                 IF r.ok THEN PlaceOrderResponse(0, r.order_id)
                                 ELSE PlaceOrderResponse(400, 0))
    /\ match_receiver' = [match_receiver EXCEPT ![m] = Tail(@)]
    /\ UNCHANGED <<accounts, receiver, match_senders, running, deposited>>

ClockNext ==
  \/ Sweep_place_order
  \/ Edge_await
  \/ Sequencer_place_order
  \/ Sequencer_trade_execution
  \/ Clocked_place_order

SpecClock == SweepInit /\ [][ClockNext]_vars

(***************************************************************************)
(* The symbol workload: the limit-order workload with clients that also    *)
(* name a symbol that is not in GLOBAL_SYMBOLS                             *)
(***************************************************************************)
AnySymbolIds == SymbolIds \cup {UNKNOWN_SYMBOL}

Symbols_place_order ==
  /\ OrdersInSystem < MaxSweepOrders
  /\ \E k \in Slots, a \in Accounts, symbol_id \in AnySymbolIds, side \in SideCodes,
        price \in PriceStrs, quantity \in QuantityStrs :
       edge_send(k, [type |-> "PlaceOrder", symbol_id |-> symbol_id, account_id |-> a,
                  order_type |-> 0, side |-> side, price |-> price,
                  quantity |-> quantity, response_sender |-> 0])

SymbolsNext ==
  \/ Symbols_place_order
  \/ Edge_await
  \/ Sequencer_place_order
  \/ Sequencer_trade_execution
  \/ Match_place_order

SpecSymbols == SweepInit /\ [][SymbolsNext]_vars

(***************************************************************************)
(* The malformed-input workload: all matchers wired, clients that send     *)
(* amounts, prices and quantities that are unparsable, zero or negative    *)
(* and kind and side codes outside {0, 1}                                  *)
(***************************************************************************)
AmountStrs == {BadStr, Str(-1), Str(0), Str(1), Str(MaxBalance)}
AnyPriceStrs == {BadStr, Str(-1), Str(0), Str(1)}
AnyQuantityStrs == {Str(-1), Str(0), Str(1)}
AnyKindCodes == {0, 1, 2}
AnySideCodes == {0, 1, 2}

InputsInit ==
  /\ Init
  /\ match_senders = [s \in Shards |-> SHARD_COUNT]

Inputs_increase ==
  \E k \in Slots, a \in Accounts, c \in Currencies, amount \in AmountStrs :
    /\ deposited[a][c] + amount.value <= MaxBalance
    /\ edge_send(k, [type |-> "Increase", account_id |-> a, currency_id |-> c,
                     amount |-> amount, response_sender |-> 0])

Inputs_decrease ==
  \E k \in Slots, a \in Accounts, c \in Currencies, amount \in AmountStrs :
    edge_send(k, [type |-> "Decrease", account_id |-> a, currency_id |-> c,
                  amount |-> amount, response_sender |-> 0])

Inputs_place_order ==
  /\ OrdersInSystem < MaxInputOrders
  /\ \E k \in Slots, a \in Accounts, symbol_id \in SymbolIds, kind \in AnyKindCodes,
        side \in AnySideCodes, price \in AnyPriceStrs, quantity \in AnyQuantityStrs :
       edge_send(k, [type |-> "PlaceOrder", symbol_id |-> symbol_id, account_id |-> a,
                  order_type |-> kind, side |-> side, price |-> price,
                  quantity |-> quantity, response_sender |-> 0])

InputsNext ==
  \/ Inputs_increase
  \/ Inputs_decrease
  \/ Inputs_place_order
  \/ Edge_await
  \/ Sequencer_increase
  \/ Sequencer_decrease
  \/ Sequencer_place_order
  \/ Match_place_order

SpecInputs == InputsInit /\ [][InputsNext]_vars

(***************************************************************************)
(* Properties                                                              *)
(***************************************************************************)
\* the balance the owning sequencer holds for an (account, currency)
balance(a, c) == balance_of(accounts[shard_index(a, SHARD_COUNT)], a, c)

\* no message in flight between the edge, the sequencers and the matchers
Quiescent ==
  \A s \in Shards : /\ receiver[s] = <<>>
                    /\ trade_execution_receiver[s] = <<>>
                    /\ match_receiver[s] = <<>>

\* C1: every stored (account, currency) balance has total = frozen + available
BalanceIdentity ==
  \A s \in Shards : \A a \in DOMAIN accounts[s] : \A c \in Currencies :
    accounts[s][a][c].total = accounts[s][a][c].frozen + accounts[s][a][c].available

\* a settlement has changed a total while part of the balance is still frozen
BalanceIdentityWitness ==
  \E a \in Accounts, c \in Currencies :
    /\ balance(a, c).frozen > 0
    /\ balance(a, c).total # deposited[a][c]

\* C2: every stored balance has frozen >= 0 and available >= 0
NonNegativeBalances ==
  \A s \in Shards : \A a \in DOMAIN accounts[s] : \A c \in Currencies :
    /\ accounts[s][a][c].frozen >= 0
    /\ accounts[s][a][c].available >= 0

\* what the trades of a log add to the total of (a, c) when both sides are settled
RECURSIVE TradeDelta(_, _, _)
TradeDelta(trades, a, c) ==
  IF trades = <<>> THEN 0
  ELSE LET t == Head(trades)
           symbol == get_symbol(t.symbol_id)
           bought == IF t.buy_account_id = a
                     THEN (IF c = symbol.base THEN t.quantity ELSE 0)
                          - (IF c = symbol.quote THEN t.price * t.quantity ELSE 0)
                     ELSE 0
           sold == IF t.sell_account_id = a
                   THEN (IF c = symbol.quote THEN t.price * t.quantity ELSE 0)
                        - (IF c = symbol.base THEN t.quantity ELSE 0)
                   ELSE 0
       IN  bought + sold + TradeDelta(Tail(trades), a, c)

Traded(a, c) ==
  SumOver([m \in Shards |-> TradeDelta(matching_engine[m].trades, a, c)], Shards)

\* C3: once no message is in flight, every emitted trade is settled on both sides:
\* each total is the deposits plus what the account bought and sold
BothPartiesSettled ==
  Quiescent =>
    \A a \in Accounts, c \in Currencies :
      balance(a, c).total = deposited[a][c] + Traded(a, c)

\* C4: in a quiescent state the totals of a currency add up to the successful
\* Increase amounts minus the successful Decrease amounts
MassConservation ==
  Quiescent =>
    \A c \in Currencies :
      SumOver([a \in Accounts |-> balance(a, c).total], Accounts)
        = SumOver([a \in Accounts |-> deposited[a][c]], Accounts)

\* the matcher m takes a message of the given type off its mailbox in this step
MatcherHandles(m, type) ==
  /\ Ready_matcher(m, type)
  /\ match_receiver'[m] = Tail(match_receiver[m])

\* the head of matcher m's mailbox cancels an order that rests in its price level
\* and belongs to another account
CancelsForeignOrder(m) ==
  LET msg == Head(match_receiver[m])
      books == matching_engine[m].order_books
  IN  /\ msg.symbol_id \in DOMAIN books
      /\ msg.order_id \in DOMAIN books[msg.symbol_id].orders
      /\ LET o == books[msg.symbol_id].orders[msg.order_id]
             side_book == IF o.side = "Bid" THEN books[msg.symbol_id].bids
                          ELSE books[msg.symbol_id].asks
         IN  /\ o.account_id # msg.account_id
             /\ o.price \in DOMAIN side_book
             /\ position(side_book[o.price].orders, o.id) # 0

\* C5: a CancelOrder by an account that does not own the order is answered 403 and
\* changes nothing: the book, its levels and its index stay as they were and no
\* UnfreezeOrder is sent
ForeignCancelChangesNothing ==
  [][\A m \in Shards :
       (MatcherHandles(m, "CancelOrder") /\ CancelsForeignOrder(m)) =>
         /\ oneshot'[Head(match_receiver[m]).response_sender]
              = Ready(CancelOrderResponse(403, Head(match_receiver[m]).order_id, 0))
         /\ matching_engine' = matching_engine
         /\ trade_execution_receiver' = trade_execution_receiver]_vars

\* the order a PlaceOrder handled in this step by matcher m was given, afterwards
PlacedOrder(m) ==
  matching_engine'[m].order_books[Head(match_receiver[m]).symbol_id]
    .orders[matching_engine[m].next_order_id]

\* no order rests on the opposite side of the book at a price that crosses o's limit
NothingCrosses(book, o) ==
  IF o.side = "Bid" THEN \A p \in DOMAIN book.asks : p > o.price
  ELSE \A p \in DOMAIN book.bids : p < o.price

\* C6: when a limit PlaceOrder finishes, the taker is fully filled or no resting
\* order of the opposite side crosses its limit
LimitSweepsEveryMaker ==
  [][\A m \in Shards :
       (/\ MatcherHandles(m, "PlaceOrder")
        /\ OrderType_from(Head(match_receiver[m]).order_type) = "Limit"
        /\ matching_engine'[m].next_order_id # matching_engine[m].next_order_id) =>
         \/ is_filled(PlacedOrder(m))
         \/ NothingCrosses(
              matching_engine'[m].order_books[Head(match_receiver[m]).symbol_id],
              PlacedOrder(m))]_vars

\* the collateral of the orders of account a resting in a level's queue
RECURSIVE LevelCollateral(_, _, _)
LevelCollateral(orders, a, unit) ==
  IF orders = <<>> THEN 0
  ELSE (IF Head(orders).account_id = a
        THEN unit * remaining_quantity(Head(orders)) ELSE 0)
       + LevelCollateral(Tail(orders), a, unit)

\* the collateral in currency c of the open orders of account a in one book
BookCollateral(book, a, c) ==
  LET symbol == get_symbol(book.symbol_id)
  IN  (IF c = symbol.base
       THEN SumOver([p \in DOMAIN book.asks |->
                       LevelCollateral(book.asks[p].orders, a, 1)], DOMAIN book.asks)
       ELSE 0)
      + (IF c = symbol.quote
         THEN SumOver([p \in DOMAIN book.bids |->
                         LevelCollateral(book.bids[p].orders, a, p)], DOMAIN book.bids)
         ELSE 0)

OpenCollateral(a, c) ==
  SumOver([m \in Shards |->
             SumOver([sy \in DOMAIN matching_engine[m].order_books |->
                        BookCollateral(matching_engine[m].order_books[sy], a, c)],
                     DOMAIN matching_engine[m].order_books)], Shards)

\* C7: in every reachable state the frozen base of an account covers the remaining
\* quantity of its open Asks and its frozen quote covers price * remaining of its
\* open Bids
Reconciliation ==
  \A a \in Accounts, c \in Currencies : balance(a, c).frozen >= OpenCollateral(a, c)

\* the sequencer s takes a PlaceOrder off its mailbox in this step
SequencerPlaces(s) ==
  /\ Ready_sequencer(s, "PlaceOrder")
  /\ Len(receiver'[s]) < Len(receiver[s])

\* the collateral the freeze rule asks for: quote, price * quantity for a Bid
\* (side 0); base, quantity for an Ask (side 1)
Collateral(msg) ==
  IF msg.side = 0
  THEN [currency |-> get_symbol(msg.symbol_id).quote,
        amount |-> msg.price.value * msg.quantity.value]
  ELSE [currency |-> get_symbol(msg.symbol_id).base, amount |-> msg.quantity.value]

\* the sequencer did not answer the PlaceOrder itself: the freeze succeeded
Accepted(msg) == oneshot'[msg.response_sender].state # "ready"

FreezeMoves(s, msg, col) ==
  LET before == balance_of(accounts[s], msg.account_id, col.currency)
      after == balance_of(accounts'[s], msg.account_id, col.currency)
  IN  /\ Accepted(msg) <=> before.available >= col.amount
      /\ Accepted(msg) => /\ after.available = before.available - col.amount
                          /\ after.frozen = before.frozen + col.amount
                          /\ after.total = before.total

\* C8: an accepted Bid moves exactly price * quantity of the quote currency from
\* available to frozen, an accepted Ask exactly quantity of the base currency; the
\* freeze succeeds iff available >= amount and leaves total unchanged
FreezeRule ==
  [][\A s \in Shards :
       SequencerPlaces(s) =>
         FreezeMoves(s, Head(receiver[s]), Collateral(Head(receiver[s])))]_vars

\* an accepted Bid waits at its matcher with price * quantity of quote frozen
FreezeRuleWitness ==
  \E m \in Shards :
    /\ Ready_matcher(m, "PlaceOrder")
    /\ Head(match_receiver[m]).side = 0
    /\ Head(match_receiver[m]).price.value > 1
    /\ balance(Head(match_receiver[m]).account_id, USDT).frozen
         = Head(match_receiver[m]).price.value * Head(match_receiver[m]).quantity.value

Rejected(s, msg) ==
  /\ oneshot'[msg.response_sender] = Ready(PlaceOrderResponse(400, 0))
  /\ match_receiver' = match_receiver
  /\ matching_engine' = matching_engine
  /\ \A c \in Currencies :
       balance_of(accounts'[s], msg.account_id, c)
         = balance_of(accounts[s], msg.account_id, c)

\* C9: a PlaceOrder whose collateral exceeds the available balance is answered 400
\* by the sequencer, reaches no matcher, creates no order and leaves the account's
\* (total, frozen, available) unchanged
InsufficientBalanceRejected ==
  [][\A s \in Shards :
       (/\ SequencerPlaces(s)
        /\ Collateral(Head(receiver[s])).amount
             > balance_of(accounts[s], Head(receiver[s]).account_id,
                          Collateral(Head(receiver[s])).currency).available) =>
         Rejected(s, Head(receiver[s]))]_vars

\* a funded account has been refused an order
InsufficientBalanceWitness ==
  \E k \in Slots, a \in Accounts, c \in Currencies :
    /\ oneshot[k] = Ready(PlaceOrderResponse(400, 0))
    /\ a \in DOMAIN accounts[shard_index(a, SHARD_COUNT)]
    /\ balance(a, c).available > 0

\* the owner's cancel of the only order ever placed, a limit order, has been
\* answered with success and every message it caused has been processed
RoundTripDone(k) ==
  /\ oneshot[k].state = "ready"
  /\ oneshot[k].response.type = "CancelOrderResponse"
  /\ oneshot[k].response.code = 0
  /\ Quiescent
  /\ OrdersInSystem = 1
  /\ \A m \in Shards : \A sy \in DOMAIN matching_engine[m].order_books :
       \A id \in DOMAIN matching_engine[m].order_books[sy].orders :
         matching_engine[m].order_books[sy].orders[id].order_type = "Limit"

Resting(side_book) ==
  UNION {{side_book[p].orders[i] : i \in 1 .. Len(side_book[p].orders)} :
           p \in DOMAIN side_book}

\* the filled quantity the index of a book records for an order
Filled(book, id) == book.orders[id].filled_quantity

\* in this step of matcher m no order resting in the level queue received a fill
\* while an order that arrived at the level before it (a smaller id: the matcher
\* numbers the orders as they arrive) was left with remaining quantity
EarlierFirst(m, queue) ==
  \A i, j \in 1 .. Len(queue) :
    LET sy == Head(match_receiver[m]).symbol_id
        before == matching_engine[m].order_books[sy]
        after == matching_engine'[m].order_books[sy]
    IN  (/\ queue[i].id < queue[j].id
         /\ Filled(after, queue[j].id) > Filled(before, queue[j].id)) =>
          is_filled(after.orders[queue[i].id])

\* C11: of two orders resting on the same side at the same price, the one that
\* arrived earlier is filled first: the later one receives no fill while the
\* earlier one still has remaining quantity
PriceTimePriority ==
  [][\A m \in Shards :
       (/\ MatcherHandles(m, "PlaceOrder")
        /\ Head(match_receiver[m]).symbol_id \in DOMAIN matching_engine[m].order_books) =>
         LET book == matching_engine[m].order_books[Head(match_receiver[m]).symbol_id]
         IN  /\ \A p \in DOMAIN book.asks : EarlierFirst(m, book.asks[p].orders)
             /\ \A p \in DOMAIN book.bids : EarlierFirst(m, book.bids[p].orders)]_vars

\* one taker has filled two makers of the same level, the earlier one first
PriceTimePriorityWitness ==
  \E m \in Shards :
    LET trades == matching_engine[m].trades
    IN  /\ Len(trades) = 2
        /\ trades[1].price = trades[2].price
        /\ trades[1].buy_order_id = trades[2].buy_order_id
        /\ trades[1].sell_order_id < trades[2].sell_order_id

\* the trades the PlaceOrder handled in this step by matcher m has emitted
NewTrades(m) ==
  SubSeq(matching_engine'[m].trades, Len(matching_engine[m].trades) + 1,
         Len(matching_engine'[m].trades))

\* trade t of the taker (id, account, side) is made at the price of the resting
\* maker, with the Bid participant as buyer and the Ask participant as seller
AtMakerPrice(book, t, taker_id, taker_account, taker_side) ==
  IF taker_side = "Bid"
  THEN /\ t.buy_order_id = taker_id
       /\ t.buy_account_id = taker_account
       /\ t.sell_order_id \in DOMAIN book.orders
       /\ book.orders[t.sell_order_id].side = "Ask"
       /\ t.sell_account_id = book.orders[t.sell_order_id].account_id
       /\ t.price = book.orders[t.sell_order_id].price
  ELSE /\ t.sell_order_id = taker_id
       /\ t.sell_account_id = taker_account
       /\ t.buy_order_id \in DOMAIN book.orders
       /\ book.orders[t.buy_order_id].side = "Bid"
       /\ t.buy_account_id = book.orders[t.buy_order_id].account_id
       /\ t.price = book.orders[t.buy_order_id].price

BestPricesFirst(trades, taker_side) ==
  \A i, j \in 1 .. Len(trades) :
    i < j => IF taker_side = "Bid" THEN trades[i].price <= trades[j].price
             ELSE trades[i].price >= trades[j].price

TradesOfPlace(m, msg, trades) ==
  /\ \A i \in 1 .. Len(trades) :
       AtMakerPrice(matching_engine[m].order_books[msg.symbol_id], trades[i],
                    matching_engine[m].next_order_id, msg.account_id,
                    OrderSide_from(msg.side))
  /\ BestPricesFirst(trades, OrderSide_from(msg.side))

\* C12: every trade of one PlaceOrder is made at the resting maker's price, the Bid
\* participant is the buy account and the Ask participant the sell account, and the
\* trade prices are non-decreasing for a Bid taker, non-increasing for an Ask taker
TradesAtMakerPrice ==
  [][\A m \in Shards :
       MatcherHandles(m, "PlaceOrder") =>
         TradesOfPlace(m, Head(match_receiver[m]), NewTrades(m))]_vars

\* one Bid has swept two ask levels, the cheaper one first
TradesAtMakerPriceWitness ==
  \E m \in Shards :
    LET trades == matching_engine[m].trades
    IN  /\ Len(trades) = 2
        /\ trades[1].buy_order_id = trades[2].buy_order_id
        /\ trades[1].buy_order_id > trades[2].sell_order_id
        /\ trades[1].price < trades[2].price

\* the sequencer s takes a message of the given type off its trade-execution
\* mailbox in this step
SequencerExecutes(s, type) ==
  /\ running[s]
  /\ trade_execution_receiver[s] # <<>>
  /\ Head(trade_execution_receiver[s]).type = type
  /\ trade_execution_receiver'[s] = Tail(trade_execution_receiver[s])
  /\ receiver' = receiver

NoDelta == [total |-> 0, frozen |-> 0, available |-> 0]

\* what the settlement rule adds to (a, c) for the buy side of trade t
BuyDelta(t, a, c) ==
  IF t.buy_account_id # a THEN NoDelta
  ELSE IF c = get_symbol(t.symbol_id).quote
       THEN [total |-> -(t.price * t.quantity), frozen |-> -(t.price * t.quantity),
             available |-> 0]
  ELSE IF c = get_symbol(t.symbol_id).base
       THEN [total |-> t.quantity, frozen |-> 0, available |-> t.quantity]
  ELSE NoDelta

\* what the settlement rule adds to (a, c) for the sell side of trade t
SellDelta(t, a, c) ==
  IF t.sell_account_id # a THEN NoDelta
  ELSE IF c = get_symbol(t.symbol_id).base
       THEN [total |-> -t.quantity, frozen |-> -t.quantity, available |-> 0]
  ELSE IF c = get_symbol(t.symbol_id).quote
       THEN [total |-> t.price * t.quantity, frozen |-> 0,
             available |-> t.price * t.quantity]
  ELSE NoDelta

Plus(bal, d) ==
  [total |-> bal.total + d.total, frozen |-> bal.frozen + d.frozen,
   available |-> bal.available + d.available]

\* the sides of trade t that sequencer s owns have been applied to (a, c) and
\* nothing else has
Settled(s, t, a, c) ==
  balance_of(accounts'[s], a, c) =
    Plus(Plus(balance_of(accounts[s], a, c),
              IF shard_index(t.buy_account_id, SHARD_COUNT) = s
              THEN BuyDelta(t, a, c) ELSE NoDelta),
         IF shard_index(t.sell_account_id, SHARD_COUNT) = s
         THEN SellDelta(t, a, c) ELSE NoDelta)

\* C13: a sequencer processing ExecuteTrade(price, Q) applies to the buyer it owns
\* quote frozen and total - price*Q, base total and available + Q, to the seller it
\* owns base frozen and total - Q, quote total and available + price*Q, and changes
\* no other balance
SettlementDeltas ==
  [][\A s \in Shards :
       SequencerExecutes(s, "ExecuteTrade") =>
         /\ \A a \in Accounts, c \in Currencies :
              Settled(s, Head(trade_execution_receiver[s]).trade, a, c)
         /\ DOMAIN accounts'[s] \subseteq Accounts
         /\ \A o \in Shards \ {s} : accounts'[o] = accounts[o]]_vars

\* a partly filled Bid has been settled: part of the quote is spent, part is still
\* frozen, the base bought is available
SettlementDeltasWitness ==
  \E a \in Accounts :
    /\ balance(a, USDT).total < deposited[a][USDT]
    /\ balance(a, USDT).frozen > 0
    /\ balance(a, BTC).available > deposited[a][BTC]

\* the orders the matchers hold for account a on the given side
OrdersOf(a, side) ==
  UNION {UNION {{matching_engine[m].order_books[sy].orders[id] :
                   id \in {i \in DOMAIN matching_engine[m].order_books[sy].orders :
                             /\ matching_engine[m].order_books[sy].orders[i].account_id = a
                             /\ matching_engine[m].order_books[sy].orders[i].side = side}} :
                 sy \in DOMAIN matching_engine[m].order_books} : m \in Shards}

\* C14: once every Bid of an account is Filled or Cancelled and all messages are
\* processed, none of its quote is left frozen: the excess frozen for a fill below
\* the limit has been released
BidExcessReleased ==
  \A a \in Accounts :
    (/\ Quiescent
     /\ \A o \in OrdersOf(a, "Bid") : o.status \in {"Filled", "Cancelled"}) =>
      balance(a, USDT).frozen = 0

\* the sequencer s takes a message of the given type off its mailbox in this step
SequencerHandles(s, type) ==
  /\ Ready_sequencer(s, type)
  /\ Len(receiver'[s]) < Len(receiver[s])

\* the reply 400 with nothing frozen, nothing sent to a matcher, no order numbered
\* and no book changed
RefusedWith400(s, msg) ==
  /\ oneshot'[msg.response_sender] = Ready(PlaceOrderResponse(400, 0))
  /\ accounts' = accounts \/ accounts' = [accounts EXCEPT ![s] = entry_account(@, msg.account_id)]
  /\ match_receiver' = match_receiver
  /\ matching_engine' = matching_engine

\* C15: a PlaceOrder whose kind code is not 0 or 1, or whose side code is not 0 or
\* 1, is rejected with code 400: nothing is frozen, no order id is allocated and the
\* book is unchanged
InvalidCodeRejected ==
  [][\A s \in Shards :
       (/\ SequencerHandles(s, "PlaceOrder")
        /\ \/ Head(receiver[s]).order_type \notin {0, 1}
           \/ Head(receiver[s]).side \notin {0, 1}) =>
         RefusedWith400(s, Head(receiver[s]))]_vars

\* C16: a PlaceOrder (Bid or Ask) whose quantity is zero or negative, or whose limit
\* price is zero or negative, is rejected with code 400: nothing is frozen and the
\* order reaches no matcher, book or index
NonPositiveRejected ==
  [][\A s \in Shards :
       (/\ SequencerHandles(s, "PlaceOrder")
        /\ Head(receiver[s]).order_type \in {0, 1}
        /\ Head(receiver[s]).side \in {0, 1}
        /\ Head(receiver[s]).price.parsable
        /\ Head(receiver[s]).quantity.parsable
        /\ \/ Head(receiver[s]).quantity.value <= 0
           \/ /\ Head(receiver[s]).order_type = 0
              /\ Head(receiver[s]).price.value <= 0) =>
         RefusedWith400(s, Head(receiver[s]))]_vars

\* the reply code and the balance an Increase or Decrease of amount_str must give
Guarded(before, amount_str, sign, enough) ==
  IF amount_str.parsable /\ amount_str.value > 0 /\ enough
  THEN [code |-> 0,
        bal |-> [before EXCEPT !.total = @ + sign * amount_str.value,
                               !.available = @ + sign * amount_str.value]]
  ELSE [code |-> 400, bal |-> before]

\* the step of s on msg replies `want.code`, leaves (account, currency) of msg with
\* `want.bal` and every other balance as it was
AppliedTo(s, msg, want) ==
  /\ oneshot'[msg.response_sender].state = "ready"
  /\ oneshot'[msg.response_sender].response.code = want.code
  /\ \A a \in Accounts, c \in Currencies :
       balance_of(accounts'[s], a, c) =
         IF a = msg.account_id /\ c = msg.currency_id THEN want.bal
         ELSE balance_of(accounts[s], a, c)
  /\ \A o \in Shards \ {s} : accounts'[o] = accounts[o]

\* C17: Increase(a) with a > 0 adds a to total and available; Decrease(a) with a > 0
\* takes a from total and available iff available >= a; a non-positive or unparsable
\* amount or an insufficient available balance gives code 400 and leaves the triple
\* unchanged; frozen never changes
GuardedIncreaseDecrease ==
  [][\A s \in Shards :
       /\ SequencerHandles(s, "Increase") =>
            AppliedTo(s, Head(receiver[s]),
                      Guarded(balance_of(accounts[s], Head(receiver[s]).account_id,
                                         Head(receiver[s]).currency_id),
                              Head(receiver[s]).amount, 1, TRUE))
       /\ SequencerHandles(s, "Decrease") =>
            AppliedTo(s, Head(receiver[s]),
                      Guarded(balance_of(accounts[s], Head(receiver[s]).account_id,
                                         Head(receiver[s]).currency_id),
                              Head(receiver[s]).amount, -1,
                              balance_of(accounts[s], Head(receiver[s]).account_id,
                                         Head(receiver[s]).currency_id).available
                                >= Head(receiver[s]).amount.value))]_vars

\* a Decrease that the total would cover has been refused because part is frozen
GuardedIncreaseDecreaseWitness ==
  \E k \in Slots, a \in Accounts, c \in Currencies :
    /\ oneshot[k].state = "ready"
    /\ oneshot[k].response.type = "DecreaseResponse"
    /\ oneshot[k].response.code = 400
    /\ balance(a, c).frozen > 0
    /\ balance(a, c).total = MaxBalance
    /\ \A b \in Accounts, d \in Currencies :
         <<b, d>> # <<a, c>> => balance(b, d).total = 0

\* the side of a book an order of the given side rests on
SideOf(book, side) == IF side = "Bid" THEN book.bids ELSE book.asks

\* order id of the book is open: indexed as Pending or Partial and resting in the
\* level of its price
OpenIn(book, id) ==
  /\ id \in DOMAIN book.orders
  /\ book.orders[id].status \in {"Pending", "Partial"}
  /\ book.orders[id].price \in DOMAIN SideOf(book, book.orders[id].side)
  /\ position(SideOf(book, book.orders[id].side)[book.orders[id].price].orders, id) # 0

\* the queue without the order of the given id
Without(queue, id) == SelectSeq(queue, LAMBDA o : o.id # id)

\* the book after the cancel of the resting order lo: lo is out of its level, the
\* emptied level is dropped, the index holds lo as Cancelled, the rest is as before
CancelledFrom(before, after, lo) ==
  LET side == SideOf(before, lo.side)
      side1 == SideOf(after, lo.side)
      rest == Without(side[lo.price].orders, lo.id)
  IN  /\ DOMAIN side1 = IF rest = <<>> THEN DOMAIN side \ {lo.price} ELSE DOMAIN side
      /\ \A p \in DOMAIN side1 :
           IF p = lo.price
           THEN /\ side1[p].orders = rest
                /\ side1[p].total_quantity
                     = side[p].total_quantity - remaining_quantity(lo)
           ELSE side1[p] = side[p]
      /\ SideOf(after, IF lo.side = "Bid" THEN "Ask" ELSE "Bid")
           = SideOf(before, IF lo.side = "Bid" THEN "Ask" ELSE "Bid")
      /\ after.orders = [before.orders EXCEPT ![lo.id] = [lo EXCEPT !.status = "Cancelled"]]

OwnerCancelOf(m, msg, before, lo) ==
  /\ CancelledFrom(before, matching_engine'[m].order_books[msg.symbol_id], lo)
  /\ oneshot'[msg.response_sender]
       = Ready(CancelOrderResponse(0, msg.order_id, remaining_quantity(lo)))
  /\ trade_execution_receiver' =
       [trade_execution_receiver EXCEPT ![shard_index(lo.account_id, SHARD_COUNT)] =
          Append(@, [type |-> "UnfreezeOrder",
                     order |-> [lo EXCEPT !.status = "Cancelled"]])]

\* C18: the owner's CancelOrder of an open resting order takes the order out of its
\* level, drops the level if it is emptied, marks the order Cancelled in the index,
\* replies code 0 with cancelled_quantity = remaining and sends exactly one
\* UnfreezeOrder with the order snapshot to the sequencer that owns the account
OwnerCancelEffect ==
  [][\A m \in Shards :
       (/\ MatcherHandles(m, "CancelOrder")
        /\ Head(match_receiver[m]).symbol_id \in DOMAIN matching_engine[m].order_books
        /\ OpenIn(matching_engine[m].order_books[Head(match_receiver[m]).symbol_id],
                  Head(match_receiver[m]).order_id)
        /\ matching_engine[m].order_books[Head(match_receiver[m]).symbol_id]
             .orders[Head(match_receiver[m]).order_id].account_id
             = Head(match_receiver[m]).account_id) =>
         LET msg == Head(match_receiver[m])
             before == matching_engine[m].order_books[msg.symbol_id]
             o == before.orders[msg.order_id]
             queue == SideOf(before, o.side)[o.price].orders
         IN  OwnerCancelOf(m, msg, before, queue[position(queue, o.id)])]_vars

\* the owner has cancelled a partly filled order
OwnerCancelEffectWitness ==
  \E k \in Slots, m \in Shards :
    /\ oneshot[k].state = "ready"
    /\ oneshot[k].response.type = "CancelOrderResponse"
    /\ oneshot[k].response.code = 0
    /\ BTC_USDT \in DOMAIN matching_engine[m].order_books
    /\ oneshot[k].response.order_id \in DOMAIN matching_engine[m].order_books[BTC_USDT].orders
    /\ matching_engine[m].order_books[BTC_USDT].orders[oneshot[k].response.order_id]
         .filled_quantity > 0

\* the CancelOrder names nothing that can be cancelled: its symbol has no book, its
\* order id is not in the index, or the indexed order is Filled or Cancelled
NothingToCancel(engine, msg) ==
  \/ msg.symbol_id \notin DOMAIN engine.order_books
  \/ msg.order_id \notin DOMAIN engine.order_books[msg.symbol_id].orders
  \/ engine.order_books[msg.symbol_id].orders[msg.order_id].status
       \in {"Filled", "Cancelled"}

\* the price levels of every book of the engine
Levels(engine) ==
  [sy \in DOMAIN engine.order_books |->
     [bids |-> engine.order_books[sy].bids, asks |-> engine.order_books[sy].asks]]

\* C19: a CancelOrder for an order id that is not in the index, for an order that is
\* Filled or Cancelled, or for a symbol without a book is answered with code 404,
\* changes no price level and sends no UnfreezeOrder
MissingCancelNotFound ==
  [][\A m \in Shards :
       (/\ MatcherHandles(m, "CancelOrder")
        /\ NothingToCancel(matching_engine[m], Head(match_receiver[m]))) =>
         /\ oneshot'[Head(match_receiver[m]).response_sender]
              = Ready(CancelOrderResponse(404, Head(match_receiver[m]).order_id, 0))
         /\ Levels(matching_engine'[m]) = Levels(matching_engine[m])
         /\ trade_execution_receiver' = trade_execution_receiver]_vars

\* a cancel of order 1 was answered 404 after order 2 had filled against it
MissingCancelNotFoundWitness ==
  \E k \in Slots, m \in Shards :
    /\ oneshot[k].state = "ready"
    /\ oneshot[k].response.type = "CancelOrderResponse"
    /\ oneshot[k].response.code = 404
    /\ oneshot[k].response.order_id = 1
    /\ BTC_USDT \in DOMAIN matching_engine[m].order_books
    /\ 1 \notin DOMAIN matching_engine[m].order_books[BTC_USDT].orders
    /\ 2 \in DOMAIN matching_engine[m].order_books[BTC_USDT].orders
    /\ matching_engine[m].order_books[BTC_USDT].orders[2].status = "Filled"

\* C20: a market order never rests: no price level of any book holds an order of
\* type Market, whatever is left of it after matching
MarketNeverRests ==
  \A m \in Shards : \A sy \in DOMAIN matching_engine[m].order_books :
    \A side \in {"Bid", "Ask"} :
      \A p \in DOMAIN SideOf(matching_engine[m].order_books[sy], side) :
        \A i \in DOMAIN SideOf(matching_engine[m].order_books[sy], side)[p].orders :
          SideOf(matching_engine[m].order_books[sy], side)[p].orders[i].order_type # "Market"

\* a market order was partly filled and what was left of it is in no level
MarketNeverRestsWitness ==
  \E m \in Shards : \E sy \in DOMAIN matching_engine[m].order_books :
    \E id \in DOMAIN matching_engine[m].order_books[sy].orders :
      /\ matching_engine[m].order_books[sy].orders[id].order_type = "Market"
      /\ matching_engine[m].order_books[sy].orders[id].filled_quantity > 0
      /\ remaining_quantity(matching_engine[m].order_books[sy].orders[id]) > 0

\* the places (side, price, position) of one side of a book that hold order id
PlacesOn(side_book, side, id) ==
  UNION {{<<side, p, i>> : i \in {j \in DOMAIN side_book[p].orders :
                                    side_book[p].orders[j].id = id}} :
           p \in DOMAIN side_book}

Places(book, id) == PlacesOn(book.bids, "Bid", id) \cup PlacesOn(book.asks, "Ask", id)

\* every book of every matcher
Books == {matching_engine[m].order_books[sy] :
            <<m, sy>> \in {x \in Shards \X SymbolIds :
                             x[2] \in DOMAIN matching_engine[x[1]].order_books}}

\* C21: every order of the index that is Pending or Partial occurs exactly once, in
\* the level of its own price on its own side, and no Filled or Cancelled order of
\* the index occurs in any level
IndexMatchesLevels ==
  \A book \in Books : \A id \in DOMAIN book.orders :
    IF book.orders[id].status \in {"Pending", "Partial"}
    THEN \E i \in 1 .. MaxSweepOrders :
           Places(book, id) = {<<book.orders[id].side, book.orders[id].price, i>>}
    ELSE Places(book, id) = {}

\* the level is well formed: a non-empty queue of orders of its price and side, in
\* arrival order (the engine numbers the orders as they arrive), whose remaining
\* quantities add up to total_quantity
WellFormedLevel(level, side, p) ==
  /\ level.orders # <<>>
  /\ level.price = p
  /\ level.total_quantity = SumRemaining(level.orders)
  /\ \A i \in DOMAIN level.orders :
       /\ level.orders[i].price = p
       /\ level.orders[i].side = side
       /\ \A j \in DOMAIN level.orders : i < j => level.orders[i].id < level.orders[j].id

\* C22: every price level of bids and asks has a non-empty queue, a total_quantity
\* equal to the sum of the remaining quantities of its orders, only orders of its
\* own price and side, and its queue in arrival order
PriceLevelInvariant ==
  \A book \in Books : \A side \in {"Bid", "Ask"} :
    \A p \in DOMAIN SideOf(book, side) : WellFormedLevel(SideOf(book, side)[p], side, p)

\* a level holds two orders, the earlier one ahead of the later one
PriceLevelInvariantWitness ==
  \E book \in Books : \E side \in {"Bid", "Ask"} : \E p \in DOMAIN SideOf(book, side) :
    Len(SideOf(book, side)[p].orders) = 2

\* the order's fill is within its quantity and its status agrees with its fill
ConsistentOrder(o) ==
  /\ 0 <= o.filled_quantity
  /\ o.filled_quantity <= o.quantity
  /\ o.status = "Filled" <=> o.filled_quantity = o.quantity
  /\ o.status = "Partial" => 0 < o.filled_quantity /\ o.filled_quantity < o.quantity

\* a Cancelled order that stays in the index keeps its status and its fill, and no
\* trade of the step names it
CancelledStays(m, sy, id) ==
  LET o == matching_engine[m].order_books[sy].orders[id]
  IN  o.status = "Cancelled" =>
        /\ id \in DOMAIN matching_engine'[m].order_books[sy].orders =>
             matching_engine'[m].order_books[sy].orders[id] = o
        /\ \A i \in DOMAIN NewTrades(m) :
             NewTrades(m)[i].symbol_id = sy =>
               /\ NewTrades(m)[i].buy_order_id # id
               /\ NewTrades(m)[i].sell_order_id # id

\* C23: every order of the index has 0 <= filled_quantity <= quantity, is Filled
\* exactly when filled_quantity = quantity and Partial only when
\* 0 < filled_quantity < quantity; a Cancelled order never changes status or
\* filled_quantity again and is in no later trade
OrderInvariants ==
  /\ [](\A book \in Books : \A id \in DOMAIN book.orders : ConsistentOrder(book.orders[id]))
  /\ [][\A m \in Shards : \A sy \in DOMAIN matching_engine[m].order_books :
          \A id \in DOMAIN matching_engine[m].order_books[sy].orders :
            CancelledStays(m, sy, id)]_vars

\* the commands in the mailboxes that carry reply channel k
RECURSIVE CountSender(_, _)
CountSender(queue, k) ==
  IF queue = <<>> THEN 0
  ELSE (IF Head(queue).response_sender = k THEN 1 ELSE 0) + CountSender(Tail(queue), k)

Undelivered(k) ==
  SumOver([s \in Shards |-> CountSender(receiver[s], k) + CountSender(match_receiver[s], k)],
          Shards)

\* the step in which the processor named for the command writes the reply to k: the
\* sequencer for GetAccount, Increase, Decrease and a rejected PlaceOrder, the
\* matcher for a PlaceOrder it has matched and for a CancelOrder
RepliedBy(k) ==
  \/ \E s \in Shards :
       /\ receiver[s] # <<>>
       /\ Head(receiver[s]).response_sender = k
       /\ SequencerHandles(s, Head(receiver[s]).type)
       /\ \/ Head(receiver[s]).type \in {"GetAccount", "Increase", "Decrease"}
          \/ /\ Head(receiver[s]).type = "PlaceOrder"
             /\ oneshot'[k].response.code # 0
  \/ \E m \in Shards :
       /\ match_receiver[m] # <<>>
       /\ Head(match_receiver[m]).response_sender = k
       /\ MatcherHandles(m, Head(match_receiver[m]).type)
       /\ Head(match_receiver[m]).type \in {"PlaceOrder", "CancelOrder"}

\* C24: every command gets exactly one reply on its one-shot channel: while the
\* channel waits the command is in exactly one mailbox, the channel is never
\* dropped unanswered, and the one reply is written by the sequencer (GetAccount,
\* Increase, Decrease, rejected PlaceOrder) or by the matcher (PlaceOrder,
\* CancelOrder)
ExactlyOneReply ==
  /\ [](\A k \in Slots :
          /\ oneshot[k].state \in {"idle", "waiting", "ready"}
          /\ Undelivered(k) = IF oneshot[k].state = "waiting" THEN 1 ELSE 0)
  /\ [][\A k \in Slots :
          oneshot'[k] # oneshot[k] =>
            \/ oneshot[k].state = "idle" /\ oneshot'[k].state = "waiting"
            \/ oneshot[k].state = "waiting" /\ oneshot'[k].state = "ready" /\ RepliedBy(k)
            \/ oneshot[k].state = "ready" /\ oneshot'[k].state = "idle"]_vars

\* the PlaceOrder that the step puts into the mailbox of matcher m comes from its
\* owner's sequencer, which in this step moves the order's collateral from
\* available to frozen
FrozenOnForward(m) ==
  LET msg == match_receiver'[m][Len(match_receiver'[m])]
      s == shard_index(msg.account_id, SHARD_COUNT)
      col == Collateral(msg)
      before == balance_of(accounts[s], msg.account_id, col.currency)
      after == balance_of(accounts'[s], msg.account_id, col.currency)
  IN  /\ SequencerPlaces(s)
      /\ msg = Head(receiver[s])
      /\ col.amount > 0
      /\ before.available >= col.amount
      /\ after.available = before.available - col.amount
      /\ after.frozen = before.frozen + col.amount

\* C25: freeze happens before matching: a PlaceOrder reaches a matcher's mailbox
\* only in the step in which the owning sequencer moves its collateral from
\* available to frozen, and a matcher changes its books only by handling a message
\* of its mailbox
FreezeBeforeMatching ==
  [][\A m \in Shards :
       /\ (/\ Len(match_receiver'[m]) > Len(match_receiver[m])
           /\ match_receiver'[m][Len(match_receiver'[m])].type = "PlaceOrder")
            => FrozenOnForward(m)
       /\ matching_engine'[m] # matching_engine[m]
            => MatcherHandles(m, "PlaceOrder") \/ MatcherHandles(m, "CancelOrder")]_vars

\* a Bid with its quote frozen waits at the matcher in front of a resting Ask whose
\* owner's base is frozen: the trade is emitted with both collaterals frozen
FreezeBeforeMatchingWitness ==
  \E m \in Shards :
    /\ Ready_matcher(m, "PlaceOrder")
    /\ Head(match_receiver[m]).side = 0
    /\ balance(Head(match_receiver[m]).account_id, USDT).frozen
         >= Collateral(Head(match_receiver[m])).amount
    /\ BTC_USDT \in DOMAIN matching_engine[m].order_books
    /\ \E p \in DOMAIN matching_engine[m].order_books[BTC_USDT].asks :
         /\ p <= Head(match_receiver[m]).price.value
         /\ balance(Head(matching_engine[m].order_books[BTC_USDT].asks[p].orders).account_id,
                    BTC).frozen
              >= remaining_quantity(Head(matching_engine[m].order_books[BTC_USDT].asks[p].orders))

\* the ownership test of sequencer s, as execute_single_trade and
\* unfreeze_order_balance make it
Owns(s, account_id) == Abs(Rem(account_id, OWNER_MODULUS)) = s

\* C26: every shard-selection site uses |id| mod N with the same shard count N: for
\* every N a settlement or refund routed to sequencer k concerns an account that
\* k's own ownership test accepts, so that k applies it
RoutedToOwner ==
  \A s \in DOMAIN trade_execution_receiver :
    \A i \in DOMAIN trade_execution_receiver[s] :
      IF trade_execution_receiver[s][i].type = "ExecuteTrade"
      THEN Owns(s, trade_execution_receiver[s][i].trade.buy_account_id)
      ELSE Owns(s, trade_execution_receiver[s][i].order.account_id)

\* listing is the best n levels of the side, best first (sign is 1 where the lowest
\* price is best, -1 where the highest is), each with the sum of the remaining
\* quantities of its orders
TopLevels(listing, side_book, n, sign) ==
  /\ Len(listing) = IF n < Cardinality(DOMAIN side_book) THEN n
                    ELSE Cardinality(DOMAIN side_book)
  /\ \A i \in DOMAIN listing :
       /\ listing[i].price.parsable
       /\ listing[i].price.value \in DOMAIN side_book
       /\ listing[i].quantity = Str(SumRemaining(side_book[listing[i].price.value].orders))
       /\ \A j \in DOMAIN listing :
            i < j => sign * listing[i].price.value < sign * listing[j].price.value
       /\ \A q \in DOMAIN side_book :
            (\A j \in DOMAIN listing : listing[j].price.value # q)
              => sign * listing[i].price.value < sign * q

BookView(book, resp, n) ==
  /\ resp.code = 0
  /\ TopLevels(resp.bids, book.bids, n, -1)
  /\ TopLevels(resp.asks, book.asks, n, 1)
  /\ resp.best_bid = IF DOMAIN book.bids = {} THEN <<>>
                     ELSE <<Str(CHOOSE p \in DOMAIN book.bids :
                                  \A q \in DOMAIN book.bids : q <= p)>>
  /\ resp.best_ask = IF DOMAIN book.asks = {} THEN <<>>
                     ELSE <<Str(CHOOSE p \in DOMAIN book.asks :
                                  \A q \in DOMAIN book.asks : p <= q)>>
  /\ resp.spread = IF DOMAIN book.bids = {} \/ DOMAIN book.asks = {} THEN <<>>
                   ELSE <<Str(resp.best_ask[1].value - resp.best_bid[1].value)>>

\* C27: GetOrderBook(symbol, levels) returns at most `levels` bid levels from the
\* best bid down and at most `levels` ask levels from the best ask up, in strict
\* price order, each with its total remaining quantity, with best_bid, best_ask and
\* spread = best_ask - best_bid; levels <= 0 counts as 20; the read changes no state
GetOrderBookView ==
  [][\A m \in Shards :
       MatcherHandles(m, "GetOrderBook") =>
         LET msg == Head(match_receiver[m])
         IN  /\ oneshot'[msg.response_sender].state = "ready"
             /\ UNCHANGED <<seq_vars, matching_engine, deposited>>
             /\ msg.symbol_id \in DOMAIN matching_engine[m].order_books =>
                  BookView(matching_engine[m].order_books[msg.symbol_id],
                           oneshot'[msg.response_sender].response,
                           IF msg.levels <= 0 THEN 20 ELSE msg.levels)]_vars

\* a read of one level was answered from a book with two bid levels
GetOrderBookViewWitness ==
  \E k \in Slots, m \in Shards :
    /\ oneshot[k].state = "ready"
    /\ oneshot[k].response.type = "GetOrderBookResponse"
    /\ Len(oneshot[k].response.bids) = 1
    /\ BTC_USDT \in DOMAIN matching_engine[m].order_books
    /\ Cardinality(DOMAIN matching_engine[m].order_books[BTC_USDT].bids) = 2

\* C28: trade ids are unique and strictly increasing within a matcher: of any two
\* trades a matcher has emitted, two of one PlaceOrder included, the later one has
\* the larger id
TradeIdsIncrease ==
  \A m \in Shards : \A i \in DOMAIN matching_engine[m].trades :
    \A j \in DOMAIN matching_engine[m].trades :
      i < j => matching_engine[m].trades[i].id < matching_engine[m].trades[j].id

\* C29: a PlaceOrder that names a symbol outside the global symbol table is rejected
\* by the sequencer with code 400: nothing is frozen, nothing is forwarded to a
\* matcher and no order book is created
UnknownSymbolRejected ==
  [][\A s \in Shards :
       (/\ SequencerHandles(s, "PlaceOrder")
        /\ ~symbol_known(Head(receiver[s]).symbol_id)) =>
         /\ oneshot'[Head(receiver[s]).response_sender] = Ready(PlaceOrderResponse(400, 0))
         /\ accounts' = accounts
         /\ match_receiver' = match_receiver
         /\ matching_engine' = matching_engine
         /\ \A m \in Shards :
              Head(receiver[s]).symbol_id \notin DOMAIN matching_engine'[m].order_books]_vars

\* an order was refused with 400 although every account could pay for any order
UnknownSymbolRejectedWitness ==
  /\ \E k \in Slots : oneshot[k] = Ready(PlaceOrderResponse(400, 0))
  /\ \A a \in Accounts : \A c \in Currencies :
       balance(a, c).available >= MaxPrice * MaxQuantity

\* the amount the refund of the order asks for: price * remaining of the quote
\* currency for a Bid, remaining of the base currency for an Ask
RefundOf(order) ==
  IF order.side = "Bid"
  THEN [currency |-> get_symbol(order.symbol_id).quote,
        amount |-> order.price * (order.quantity - order.filled_quantity)]
  ELSE [currency |-> get_symbol(order.symbol_id).base,
        amount |-> order.quantity - order.filled_quantity]

\* sequencer s moves ref.amount, or all that is frozen if that is less, from frozen
\* to available for the order's account, and nothing else
Refunded(s, order, ref) ==
  LET before == balance_of(accounts[s], order.account_id, ref.currency)
      released == IF before.frozen < ref.amount THEN before.frozen ELSE ref.amount
  IN  /\ accounts' = [accounts EXCEPT ![s] =
                        with_balance(@, order.account_id, ref.currency,
                          [before EXCEPT !.frozen = @ - released,
                                         !.available = @ + released])]
      /\ balance_of(accounts'[s], order.account_id, ref.currency).frozen >= 0
      /\ balance_of(accounts'[s], order.account_id, ref.currency).total = before.total

\* C30: for an owned cancelled order UnfreezeOrder moves a = price * remaining of
\* quote (Bid) or a = remaining of base (Ask) from frozen to available; if frozen < a
\* it releases only what is frozen (frozen becomes 0); frozen never becomes negative
\* and total never changes
UnfreezeRefund ==
  [][\A s \in Shards :
       (/\ SequencerExecutes(s, "UnfreezeOrder")
        /\ Owns(s, Head(trade_execution_receiver[s]).order.account_id)) =>
         Refunded(s, Head(trade_execution_receiver[s]).order,
                  RefundOf(Head(trade_execution_receiver[s]).order))]_vars

\* a refund waits at its sequencer for more than the account has frozen
UnfreezeRefundWitness ==
  \E s \in Shards :
    /\ trade_execution_receiver[s] # <<>>
    /\ Head(trade_execution_receiver[s]).type = "UnfreezeOrder"
    /\ balance_of(accounts[s], Head(trade_execution_receiver[s]).order.account_id,
                  RefundOf(Head(trade_execution_receiver[s]).order).currency).frozen
         < RefundOf(Head(trade_execution_receiver[s]).order).amount

\* C31: the book is never crossed: whenever a book has both a best bid and a best
\* ask, best_bid < best_ask, so that the reported spread is strictly positive
NeverCrossed ==
  \A book \in Books :
    (OrderBook_get_best_bid(book) # <<>> /\ OrderBook_get_best_ask(book) # <<>>) =>
      /\ OrderBook_get_best_bid(book)[1] < OrderBook_get_best_ask(book)[1]
      /\ OrderBook_get_spread(book)[1] > 0

\* no PlaceOrder is on its way and no matcher has ever created an order
NoOrderEver ==
  \A s \in Shards :
    /\ CountType(receiver[s], "PlaceOrder") = 0
    /\ CountType(match_receiver[s], "PlaceOrder") = 0
    /\ matching_engine[s].next_order_id = 1

\* the sequencer's refusal leaves every balance of the requesting account as it was
RefusalKeepsBalances(s, msg) ==
  (/\ oneshot'[msg.response_sender].state = "ready"
   /\ oneshot'[msg.response_sender].response.code # 0) =>
     \A c \in Currencies :
       balance_of(accounts'[s], msg.account_id, c) = balance_of(accounts[s], msg.account_id, c)

\* C32: a PlaceOrder answered with a non-zero code leaves every balance of the
\* requesting account as it was before the request, whether the sequencer refuses
\* it or the matcher does after the freeze: nothing stays frozen for an order that
\* was never created
RejectedPlaceChangesNothing ==
  /\ [](NoOrderEver => \A a \in Accounts : \A c \in Currencies : balance(a, c).frozen = 0)
  /\ [][\A s \in Shards :
          SequencerHandles(s, "PlaceOrder") => RefusalKeepsBalances(s, Head(receiver[s]))]_vars

\* the side under which the sequencer froze the collateral of the PlaceOrder: quote
\* for a Bid, base for an Ask
FrozenAs(msg) ==
  IF Collateral(msg).currency = get_symbol(msg.symbol_id).quote THEN "Bid" ELSE "Ask"

\* C33: sequencer and matcher agree on the side of every forwarded order: for any
\* side code, the order the matcher creates has the side under which the sequencer
\* froze its collateral
SidesAgree ==
  [][\A m \in Shards :
       (/\ MatcherHandles(m, "PlaceOrder")
        /\ matching_engine'[m].next_order_id > matching_engine[m].next_order_id) =>
         matching_engine'[m].order_books[Head(match_receiver[m]).symbol_id]
           .orders[matching_engine[m].next_order_id].side
             = FrozenAs(Head(match_receiver[m]))]_vars

\* the sequencer hands the message at the head of its mailbox to the matcher of the
\* message's symbol and goes on running
DeliveredToMatcher(s) ==
  LET msg == Head(receiver[s])
      m == shard_index(msg.symbol_id, SHARD_COUNT)
  IN  /\ match_receiver'[m] = Append(match_receiver[m], msg)
      /\ running'[s]

\* C34: after the bootstrap every sequencer holds a sender to each of the SHARD_COUNT
\* matchers, so an accepted PlaceOrder or CancelOrder is delivered to matcher
\* |symbol_id| mod SHARD_COUNT and the sequencer keeps running
SequencersWired ==
  /\ [](\A s \in Shards : match_senders[s] = SHARD_COUNT /\ running[s])
  /\ [][\A s \in Shards : \A type \in {"PlaceOrder", "CancelOrder"} :
          (SequencerHandles(s, type) /\ Accepted(Head(receiver[s]))) =>
            DeliveredToMatcher(s)]_vars

\* an ExecuteTrade with buyer a is still waiting on the settlement mailbox of s
PendingSettlement(s, a) ==
  \E i \in 1 .. Len(trade_execution_receiver[s]) :
    /\ trade_execution_receiver[s][i].type = "ExecuteTrade"
    /\ trade_execution_receiver[s][i].trade.buy_account_id = a

\* C35: read-your-settlement: a request sent after the reply of the PlaceOrder that
\* produced trades was awaited (the router has one request in flight, so every
\* request on the mailbox is such a request) is served by the sequencer only when no
\* ExecuteTrade of the buyer is left on its settlement mailbox, whichever mailbox the
\* sequencer picks
ReadYourSettlement ==
  [][\A s \in Shards : \A type \in {"GetAccount", "PlaceOrder", "Decrease"} :
       SequencerHandles(s, type) =>
         ~PendingSettlement(s, Head(receiver[s]).account_id)]_vars

\* the ExecuteTrade messages of trades whose buyer hashes to sequencer s, in trade order
SettlementsFor(s, trades) ==
  LET ToShard(t) == shard_index(t.buy_account_id, SHARD_COUNT) = s
      mine == SelectSeq(trades, ToShard)
  IN  [i \in 1 .. Len(mine) |-> [type |-> "ExecuteTrade", trade |-> mine[i]]]

\* the message at position i of the mailbox is a settlement of the order
SettlesOrder(queue, i, order) ==
  /\ queue[i].type = "ExecuteTrade"
  /\ queue[i].trade.symbol_id = order.symbol_id
  /\ order.id \in {queue[i].trade.buy_order_id, queue[i].trade.sell_order_id}

\* the sequencer applies the message at the head of its settlement mailbox
AppliesHead(s) ==
  LET msg == Head(trade_execution_receiver[s])
  IN  /\ trade_execution_receiver'[s] = Tail(trade_execution_receiver[s])
      /\ accounts'[s] = IF msg.type = "ExecuteTrade"
                        THEN execute_single_trade(accounts[s], s, msg.trade)
                        ELSE unfreeze_order_balance(accounts[s], s, msg.order)

\* C36: in the step in which the matcher answers a PlaceOrder that produced trades,
\* the ExecuteTrade of every one of those trades is already on the settlement mailbox
\* of the sequencer of its buyer, behind what was there and in trade order; a
\* sequencer takes its settlement mailbox from the head only, so a mailbox never
\* holds a settlement of an order behind the UnfreezeOrder of that order
SettlementsBeforeReply ==
  /\ [](\A s \in Shards : \A i, j \in 1 .. Len(trade_execution_receiver[s]) :
          (/\ trade_execution_receiver[s][i].type = "UnfreezeOrder"
           /\ SettlesOrder(trade_execution_receiver[s], j,
                           trade_execution_receiver[s][i].order)) => j < i)
  /\ [][/\ \A m \in Shards :
             (MatcherHandles(m, "PlaceOrder") /\ NewTrades(m) # <<>>) =>
               /\ oneshot'[Head(match_receiver[m]).response_sender].state = "ready"
               /\ \A s \in Shards :
                    trade_execution_receiver'[s] =
                      trade_execution_receiver[s] \o SettlementsFor(s, NewTrades(m))
        /\ \A s \in Shards :
             Len(trade_execution_receiver'[s]) < Len(trade_execution_receiver[s]) =>
               AppliesHead(s)]_vars

SettlementsBeforeReplyWitness ==
  \E s \in Shards :
    /\ Len(trade_execution_receiver[s]) = 2
    /\ trade_execution_receiver[s][2].type = "UnfreezeOrder"
    /\ SettlesOrder(trade_execution_receiver[s], 1, trade_execution_receiver[s][2].order)
    /\ \E k \in Slots : oneshot[k].state = "ready"

\* the orders waiting at a price on one side of the book
QueueAt(book, side, price) ==
  IF price \in DOMAIN SideOf(book, side) THEN SideOf(book, side)[price].orders ELSE <<>>

\* the order waits in no level of the book
InNoLevel(book, id) ==
  \A side \in {"Bid", "Ask"} : \A p \in DOMAIN SideOf(book, side) :
    position(SideOf(book, side)[p].orders, id) = 0

\* a limit taker left with a residual waits last at its own price on its own side,
\* behind the orders that waited there, with remaining = quantity - filled
TakerAtTail(before, after, id, msg) ==
  LET taker == after.orders[id]
      queue == QueueAt(after, taker.side, taker.price)
  IN  (taker.order_type = "Limit" /\ taker.quantity - taker.filled_quantity > 0) =>
        /\ taker.price = msg.price.value
        /\ taker.side = OrderSide_from(msg.side)
        /\ Len(queue) = Len(QueueAt(before, taker.side, taker.price)) + 1
        /\ SubSeq(queue, 1, Len(queue) - 1) = QueueAt(before, taker.side, taker.price)
        /\ queue[Len(queue)].id = id
        /\ remaining_quantity(queue[Len(queue)]) = taker.quantity - taker.filled_quantity
        /\ InNoLevel([after EXCEPT !.bids = IF taker.side = "Bid"
                                            THEN Drop(@, taker.price) ELSE @,
                                   !.asks = IF taker.side = "Ask"
                                            THEN Drop(@, taker.price) ELSE @], id)

\* the maker of a trade: partly filled it is the head of its level with status
\* Partial, fully filled it is in no level and marked Filled
MakerAfterTrade(after, maker) ==
  IF remaining_quantity(maker) > 0
  THEN /\ maker.status = "Partial"
       /\ QueueAt(after, maker.side, maker.price) # <<>>
       /\ Head(QueueAt(after, maker.side, maker.price)) = maker
  ELSE /\ maker.status = "Filled"
       /\ InNoLevel(after, maker.id)

\* C37: queue positions after a PlaceOrder: a limit taker with a residual is appended
\* at the tail of the level at its own price on its own side, with remaining quantity
\* = quantity - filled; a partly filled maker keeps the head of its level with status
\* Partial; a fully filled maker is removed from its level and marked Filled
QueuePositions ==
  [][\A m \in Shards :
       (/\ MatcherHandles(m, "PlaceOrder")
        /\ matching_engine'[m].next_order_id > matching_engine[m].next_order_id) =>
         LET msg == Head(match_receiver[m])
             id == matching_engine[m].next_order_id
             before == IF msg.symbol_id \in DOMAIN matching_engine[m].order_books
                       THEN matching_engine[m].order_books[msg.symbol_id]
                       ELSE OrderBook_new(msg.symbol_id)
             after == matching_engine'[m].order_books[msg.symbol_id]
         IN  /\ TakerAtTail(before, after, id, msg)
             /\ \A i \in 1 .. Len(NewTrades(m)) :
                  MakerAfterTrade(after,
                    after.orders[IF NewTrades(m)[i].buy_order_id = id
                                 THEN NewTrades(m)[i].sell_order_id
                                 ELSE NewTrades(m)[i].buy_order_id])]_vars

\* a partly filled limit order waits last in the level at its price after the maker
\* it emptied was marked Filled
QueuePositionsWitness ==
  \E book \in Books : \E id \in DOMAIN book.orders :
    /\ book.orders[id].order_type = "Limit"
    /\ book.orders[id].filled_quantity > 0
    /\ remaining_quantity(book.orders[id]) > 0
    /\ QueueAt(book, book.orders[id].side, book.orders[id].price) # <<>>
    /\ QueueAt(book, book.orders[id].side, book.orders[id].price)
         [Len(QueueAt(book, book.orders[id].side, book.orders[id].price))].id = id
    /\ \E maker \in DOMAIN book.orders : book.orders[maker].status = "Filled"

\* the sequencer answers the request at the head of its mailbox with a failure code
AnsweredFailure(s) ==
  LET k == Head(receiver[s]).response_sender
  IN  /\ oneshot'[k].state = "ready"
      /\ oneshot'[k].response.code # 0

\* C38: GetAccount changes no state and answers 404 for an account that does not
\* exist; a failed Increase, Decrease or PlaceOrder does not bring the account into
\* existence, so an account without a successful operation stays unknown to GetAccount
FailureCreatesNoAccount ==
  [][\A s \in Shards :
       /\ SequencerHandles(s, "GetAccount") =>
            /\ accounts' = accounts
            /\ UNCHANGED <<trade_execution_receiver, match_senders, running,
                           match_vars, deposited>>
            /\ Head(receiver[s]).account_id \notin DOMAIN accounts[s] =>
                 oneshot'[Head(receiver[s]).response_sender].response.code = 404
       /\ \A type \in {"Increase", "Decrease", "PlaceOrder"} :
            (SequencerHandles(s, type) /\ AnsweredFailure(s)) =>
              handle_get_account(accounts'[s], Head(receiver[s]).account_id)
                = handle_get_account(accounts[s], Head(receiver[s]).account_id)]_vars

\* the balance after `amount` of it left frozen for available, total untouched
Released(bal, amount) ==
  [total |-> bal.total, frozen |-> bal.frozen - amount,
   available |-> bal.available + amount]

SelfTrade(trade) == trade.buy_account_id = trade.sell_account_id

\* C39: self-trade: settling a trade whose buyer and seller are the same account
\* applies both branches to it: its total in base and in quote is unchanged, its
\* frozen quote drops by price*quantity and its frozen base by quantity, and its
\* available rises by the same amounts
SelfTradeNetsOut ==
  [][\A s \in Shards :
       (/\ SequencerExecutes(s, "ExecuteTrade")
        /\ SelfTrade(Head(trade_execution_receiver[s]).trade)) =>
         LET trade == Head(trade_execution_receiver[s]).trade
             symbol == get_symbol(trade.symbol_id)
             a == trade.buy_account_id
         IN  /\ balance_of(accounts'[s], a, symbol.quote)
                  = Released(balance_of(accounts[s], a, symbol.quote),
                             trade.price * trade.quantity)
             /\ balance_of(accounts'[s], a, symbol.base)
                  = Released(balance_of(accounts[s], a, symbol.base), trade.quantity)]_vars

\* a self-trade has been settled: nothing of it is left on the settlement mailbox
SelfTradeNetsOutWitness ==
  \E m \in Shards : \E i \in 1 .. Len(matching_engine[m].trades) :
    /\ SelfTrade(matching_engine[m].trades[i])
    /\ \A s \in Shards : trade_execution_receiver[s] = <<>>
    /\ \A s \in Shards : running[s]
====
